---- MODULE Spec2Model ----
(***************************************************************************)
(* A model of the erik.cat blog: the slug and ordering utilities           *)
(* (lib/utils), the content loader getPosts (lib/posts), the data          *)
(* functions of the pages that use them, the search of the index page and  *)
(* the routes and RSS feed of the Astro site.                              *)
(*                                                                         *)
(* A JavaScript string is a sequence of one-character strings.             *)
(***************************************************************************)
EXTENDS Integers, Sequences, FiniteSets, TLC

VARIABLES
    value,      \* the argument handed to slug
    slugOut,    \* the results of the successive slug calls on value
    slugRepeat, \* the results of the further slug calls on value itself
    first,      \* the first argument handed to orderPostsByDate
    second,     \* the second argument handed to orderPostsByDate
    orderOut,   \* the results of the orderPostsByDate calls
    version,    \* which lib/posts of the repository is deployed
    clock,      \* the time new Date() last returned
    disk,       \* the posts directory: missing or not, and its files in
                \* listing order
    pc,         \* where the getPosts call is: idle, readdir (awaiting the
                \* listing), all (awaiting Promise.all), fulfilled, rejected
    files,      \* the listing readdir returned
    task,       \* per listed file, the state of its async callback and the
                \* Post it has built
    settled,    \* the indices of the fulfilled callbacks, in fulfilment order
    reads,      \* the indices readFile was called for, in call order
    returned,   \* what getPosts returned: <<>> (nothing) or <<the Post list>>
    calls,      \* how many getPosts calls the process has started
    previous,   \* what the getPosts call before this one returned
    postPage,   \* which pages/post/[slug] of the repository is deployed
    indexProps, \* what getStaticProps of the index page returned: <<>> or
                \* <<the posts prop>>
    paths,      \* what getStaticPaths of the post page returned: <<>> or
                \* <<the slug params of the paths and fallback>>
    context,    \* the params.slug getStaticProps of the post page was
                \* called with
    postProps,  \* what that getStaticProps returned: <<>> or <<the result>>
    astroPaths, \* what getStaticPaths of the Astro post page returned: <<>>
                \* or <<the paths>>
    pending,    \* the data functions and pages of the two sites that were
                \* called and have not settled
    rejected,   \* the data functions of the Next.js pages whose call rejected
    feed,       \* the items the RSS endpoint handed to rss(): <<>> or
                \* <<the items>>
    search,     \* Home: the search state, <<>> before the component mounts
    results,    \* Home: the results state
    searched,   \* Home: whether an input event has set a non-empty text
    query,      \* Home: the pattern handleSearch last handed to fuse.search:
                \* <<>> or <<the pattern>>
    listing,    \* the posts and links of the Astro blog index: <<>> or
                \* <<the list>>
    headings,   \* the headings post.render() gave the Astro post page
    toc,        \* the table of contents of that page: <<>> or <<the part>>
    children,   \* the children of an H1 of the Next.js post page
    heading,    \* what CustomH1 rendered for them: <<>> or <<the elements>>
    phase,      \* Home and its search shortcut: where React is in the
                \* life of the component
    inputElement,  \* the search input element in the document, 0 if none
    searchInput,   \* Home: the searchInput state, 0 while undefined or null
    listeners,  \* the keydown listeners of the document: for each, the
                \* searchInput its closure holds
    activeElement, \* the element that has the focus, 0 if none
    lastKey,    \* the last keydown event dispatched to the document since
                \* the focus last left the input, and the element that had
                \* the focus then: <<>> or <<the two>>
    mounts      \* how many times Home has been mounted

slugVars == <<value, slugOut, slugRepeat>>
orderVars == <<first, second, orderOut>>
fileVars == <<version, clock>>
callVars == <<calls, previous>>
loadVars == <<disk, pc, files, task, settled, reads, returned, callVars>>
routeVars == <<context, postProps, astroPaths, feed, pending, rejected>>
homeVars == <<search, results, searched, query>>
keyVars ==
    <<phase, inputElement, searchInput, listeners, activeElement, lastKey,
      mounts>>
viewVars == <<listing, headings, toc, children, heading, keyVars>>
pageVars == <<postPage, indexProps, paths, routeVars, homeVars, viewVars>>
vars ==
    <<value, slugOut, slugRepeat, first, second, orderOut, version, clock,
      disk, pc, files, task, settled, reads, returned,
      calls, previous, postPage, indexProps, paths, context, postProps,
      astroPaths, feed, pending, rejected, search, results, searched, query,
      listing,
      headings, toc,
      children, heading, phase, inputElement, searchInput, listeners,
      activeElement, lastKey, mounts>>

\* the parts of the state a specification does not use
IdleSlug == value = <<>> /\ slugOut = <<>> /\ slugRepeat = <<>>
IdleOrder == first = <<>> /\ second = <<>> /\ orderOut = <<>>
IdleVersion == version = "" /\ clock = 0
IdleDisk == disk = <<>>
IdleLoad ==
    /\ pc = "idle" /\ files = <<>> /\ task = <<>>
    /\ settled = <<>> /\ reads = <<>> /\ returned = <<>>
    /\ calls = 0 /\ previous = <<>>
IdleRoutes ==
    /\ context = <<>> /\ postProps = <<>> /\ astroPaths = <<>> /\ feed = <<>>
    /\ pending = {} /\ rejected = {}
IdleHome ==
    search = <<>> /\ results = <<>> /\ searched = FALSE /\ query = <<>>
IdleKeys ==
    /\ phase = "unmounted" /\ inputElement = 0 /\ searchInput = 0
    /\ listeners = <<>> /\ activeElement = 0 /\ lastKey = <<>>
    /\ mounts = 0
IdleViews ==
    /\ listing = <<>> /\ headings = <<>> /\ toc = <<>>
    /\ children = <<>> /\ heading = <<>>
    /\ IdleKeys
IdlePages ==
    /\ postPage = "" /\ indexProps = <<>> /\ paths = <<>>
    /\ IdleRoutes /\ IdleHome /\ IdleViews

-----------------------------------------------------------------------------
(* Bounds of the model. *)

\* the longest string handed to slug
MaxLen == 4

\* the latest instant (a timestamp) a date names
MaxDate == 3

\* how far beyond the description budget the longest body goes
MaxExtra == 3

\* the most files the posts directory of a load holds
MaxFiles == 3

\* the latest time new Date() returns during a load
MaxClock == 1

\* the most posts the directory holds when the pages are generated
MaxPosts == 3

-----------------------------------------------------------------------------
(* Characters. A string is the sequence of its UTF-16 code units; a        *)
(* printable ASCII character stands for itself, "\t", "\n", "\f" and "\r"  *)
(* for the control characters they escape, and any other code unit is      *)
(* written "U+" and its four hexadecimal digits ("U+000B" is \v).          *)

UpperLetters ==
    <<"A", "B", "C", "D", "E", "F", "G", "H", "I", "J", "K", "L", "M",
      "N", "O", "P", "Q", "R", "S", "T", "U", "V", "W", "X", "Y", "Z">>

LowerLetters ==
    <<"a", "b", "c", "d", "e", "f", "g", "h", "i", "j", "k", "l", "m",
      "n", "o", "p", "q", "r", "s", "t", "u", "v", "w", "x", "y", "z">>

Range(s) == {s[i] : i \in DOMAIN s}

Upper == Range(UpperLetters)
Lower == Range(LowerLetters)
Digit == {"0", "1", "2", "3", "4", "5", "6", "7", "8", "9"}

\* \s of a JavaScript regular expression, which are the characters trim
\* removes: the WhiteSpace and LineTerminator code units
Whitespace ==
    {"\t", "\n", "U+000B", "\f", "\r", " ", "U+00A0", "U+1680",
     "U+2000", "U+2001", "U+2002", "U+2003", "U+2004", "U+2005", "U+2006",
     "U+2007", "U+2008", "U+2009", "U+200A",
     "U+2028", "U+2029", "U+202F", "U+205F", "U+3000", "U+FEFF"}

\* \w of a JavaScript regular expression: [A-Za-z0-9_]
WordChar == Upper \cup Lower \cup Digit \cup {"_"}

Hyphen == "-"

-----------------------------------------------------------------------------
(* String.prototype methods, as slug uses them. *)

\* value.toString() of a string is the string; of a plain object it is
\* "[object Object]"
ObjectToString ==
    <<"[", "o", "b", "j", "e", "c", "t", " ",
      "O", "b", "j", "e", "c", "t", "]">>

RECURSIVE trimStart(_)
trimStart(s) ==
    IF s # <<>> /\ Head(s) \in Whitespace THEN trimStart(Tail(s)) ELSE s

RECURSIVE trimEnd(_)
trimEnd(s) ==
    IF s # <<>> /\ s[Len(s)] \in Whitespace
    THEN trimEnd(SubSeq(s, 1, Len(s) - 1))
    ELSE s

trim(s) == trimEnd(trimStart(s))

\* the code units outside ASCII that toLowerCase changes, each with the
\* code unit it becomes
LowerCasePairs ==
    {
      <<"U+00C0", "U+00E0">>, <<"U+00C1", "U+00E1">>, <<"U+00C2", "U+00E2">>,
      <<"U+00C3", "U+00E3">>, <<"U+00C4", "U+00E4">>, <<"U+00C5", "U+00E5">>,
      <<"U+00C6", "U+00E6">>, <<"U+00C7", "U+00E7">>, <<"U+00C8", "U+00E8">>,
      <<"U+00C9", "U+00E9">>, <<"U+00CA", "U+00EA">>, <<"U+00CB", "U+00EB">>,
      <<"U+00CC", "U+00EC">>, <<"U+00CD", "U+00ED">>, <<"U+00CE", "U+00EE">>,
      <<"U+00CF", "U+00EF">>, <<"U+00D0", "U+00F0">>, <<"U+00D1", "U+00F1">>,
      <<"U+00D2", "U+00F2">>, <<"U+00D3", "U+00F3">>, <<"U+00D4", "U+00F4">>,
      <<"U+00D5", "U+00F5">>, <<"U+00D6", "U+00F6">>, <<"U+00D8", "U+00F8">>,
      <<"U+00D9", "U+00F9">>, <<"U+00DA", "U+00FA">>, <<"U+00DB", "U+00FB">>,
      <<"U+00DC", "U+00FC">>, <<"U+00DD", "U+00FD">>, <<"U+00DE", "U+00FE">>,
      <<"U+0100", "U+0101">>, <<"U+0102", "U+0103">>, <<"U+0104", "U+0105">>,
      <<"U+0106", "U+0107">>, <<"U+0108", "U+0109">>, <<"U+010A", "U+010B">>,
      <<"U+010C", "U+010D">>, <<"U+010E", "U+010F">>, <<"U+0110", "U+0111">>,
      <<"U+0112", "U+0113">>, <<"U+0114", "U+0115">>, <<"U+0116", "U+0117">>,
      <<"U+0118", "U+0119">>, <<"U+011A", "U+011B">>, <<"U+011C", "U+011D">>,
      <<"U+011E", "U+011F">>, <<"U+0120", "U+0121">>, <<"U+0122", "U+0123">>,
      <<"U+0124", "U+0125">>, <<"U+0126", "U+0127">>, <<"U+0128", "U+0129">>,
      <<"U+012A", "U+012B">>, <<"U+012C", "U+012D">>, <<"U+012E", "U+012F">>,
      <<"U+0132", "U+0133">>, <<"U+0134", "U+0135">>, <<"U+0136", "U+0137">>,
      <<"U+0139", "U+013A">>, <<"U+013B", "U+013C">>, <<"U+013D", "U+013E">>,
      <<"U+013F", "U+0140">>, <<"U+0141", "U+0142">>, <<"U+0143", "U+0144">>,
      <<"U+0145", "U+0146">>, <<"U+0147", "U+0148">>, <<"U+014A", "U+014B">>,
      <<"U+014C", "U+014D">>, <<"U+014E", "U+014F">>, <<"U+0150", "U+0151">>,
      <<"U+0152", "U+0153">>, <<"U+0154", "U+0155">>, <<"U+0156", "U+0157">>,
      <<"U+0158", "U+0159">>, <<"U+015A", "U+015B">>, <<"U+015C", "U+015D">>,
      <<"U+015E", "U+015F">>, <<"U+0160", "U+0161">>, <<"U+0162", "U+0163">>,
      <<"U+0164", "U+0165">>, <<"U+0166", "U+0167">>, <<"U+0168", "U+0169">>,
      <<"U+016A", "U+016B">>, <<"U+016C", "U+016D">>, <<"U+016E", "U+016F">>,
      <<"U+0170", "U+0171">>, <<"U+0172", "U+0173">>, <<"U+0174", "U+0175">>,
      <<"U+0176", "U+0177">>, <<"U+0178", "U+00FF">>, <<"U+0179", "U+017A">>,
      <<"U+017B", "U+017C">>, <<"U+017D", "U+017E">>, <<"U+0181", "U+0253">>,
      <<"U+0182", "U+0183">>, <<"U+0184", "U+0185">>, <<"U+0186", "U+0254">>,
      <<"U+0187", "U+0188">>, <<"U+0189", "U+0256">>, <<"U+018A", "U+0257">>,
      <<"U+018B", "U+018C">>, <<"U+018E", "U+01DD">>, <<"U+018F", "U+0259">>,
      <<"U+0190", "U+025B">>, <<"U+0191", "U+0192">>, <<"U+0193", "U+0260">>,
      <<"U+0194", "U+0263">>, <<"U+0196", "U+0269">>, <<"U+0197", "U+0268">>,
      <<"U+0198", "U+0199">>, <<"U+019C", "U+026F">>, <<"U+019D", "U+0272">>,
      <<"U+019F", "U+0275">>, <<"U+01A0", "U+01A1">>, <<"U+01A2", "U+01A3">>,
      <<"U+01A4", "U+01A5">>, <<"U+01A6", "U+0280">>, <<"U+01A7", "U+01A8">>,
      <<"U+01A9", "U+0283">>, <<"U+01AC", "U+01AD">>, <<"U+01AE", "U+0288">>,
      <<"U+01AF", "U+01B0">>, <<"U+01B1", "U+028A">>, <<"U+01B2", "U+028B">>,
      <<"U+01B3", "U+01B4">>, <<"U+01B5", "U+01B6">>, <<"U+01B7", "U+0292">>,
      <<"U+01B8", "U+01B9">>, <<"U+01BC", "U+01BD">>, <<"U+01C4", "U+01C6">>,
      <<"U+01C5", "U+01C6">>, <<"U+01C7", "U+01C9">>, <<"U+01C8", "U+01C9">>,
      <<"U+01CA", "U+01CC">>, <<"U+01CB", "U+01CC">>, <<"U+01CD", "U+01CE">>,
      <<"U+01CF", "U+01D0">>, <<"U+01D1", "U+01D2">>, <<"U+01D3", "U+01D4">>,
      <<"U+01D5", "U+01D6">>, <<"U+01D7", "U+01D8">>, <<"U+01D9", "U+01DA">>,
      <<"U+01DB", "U+01DC">>, <<"U+01DE", "U+01DF">>, <<"U+01E0", "U+01E1">>,
      <<"U+01E2", "U+01E3">>, <<"U+01E4", "U+01E5">>, <<"U+01E6", "U+01E7">>,
      <<"U+01E8", "U+01E9">>, <<"U+01EA", "U+01EB">>, <<"U+01EC", "U+01ED">>,
      <<"U+01EE", "U+01EF">>, <<"U+01F1", "U+01F3">>, <<"U+01F2", "U+01F3">>,
      <<"U+01F4", "U+01F5">>, <<"U+01F6", "U+0195">>, <<"U+01F7", "U+01BF">>,
      <<"U+01F8", "U+01F9">>, <<"U+01FA", "U+01FB">>, <<"U+01FC", "U+01FD">>,
      <<"U+01FE", "U+01FF">>, <<"U+0200", "U+0201">>, <<"U+0202", "U+0203">>,
      <<"U+0204", "U+0205">>, <<"U+0206", "U+0207">>, <<"U+0208", "U+0209">>,
      <<"U+020A", "U+020B">>, <<"U+020C", "U+020D">>, <<"U+020E", "U+020F">>,
      <<"U+0210", "U+0211">>, <<"U+0212", "U+0213">>, <<"U+0214", "U+0215">>,
      <<"U+0216", "U+0217">>, <<"U+0218", "U+0219">>, <<"U+021A", "U+021B">>,
      <<"U+021C", "U+021D">>, <<"U+021E", "U+021F">>, <<"U+0220", "U+019E">>,
      <<"U+0222", "U+0223">>, <<"U+0224", "U+0225">>, <<"U+0226", "U+0227">>,
      <<"U+0228", "U+0229">>, <<"U+022A", "U+022B">>, <<"U+022C", "U+022D">>,
      <<"U+022E", "U+022F">>, <<"U+0230", "U+0231">>, <<"U+0232", "U+0233">>,
      <<"U+023A", "U+2C65">>, <<"U+023B", "U+023C">>, <<"U+023D", "U+019A">>,
      <<"U+023E", "U+2C66">>, <<"U+0241", "U+0242">>, <<"U+0243", "U+0180">>,
      <<"U+0244", "U+0289">>, <<"U+0245", "U+028C">>, <<"U+0246", "U+0247">>,
      <<"U+0248", "U+0249">>, <<"U+024A", "U+024B">>, <<"U+024C", "U+024D">>,
      <<"U+024E", "U+024F">>, <<"U+0370", "U+0371">>, <<"U+0372", "U+0373">>,
      <<"U+0376", "U+0377">>, <<"U+037F", "U+03F3">>, <<"U+0386", "U+03AC">>,
      <<"U+0388", "U+03AD">>, <<"U+0389", "U+03AE">>, <<"U+038A", "U+03AF">>,
      <<"U+038C", "U+03CC">>, <<"U+038E", "U+03CD">>, <<"U+038F", "U+03CE">>,
      <<"U+0391", "U+03B1">>, <<"U+0392", "U+03B2">>, <<"U+0393", "U+03B3">>,
      <<"U+0394", "U+03B4">>, <<"U+0395", "U+03B5">>, <<"U+0396", "U+03B6">>,
      <<"U+0397", "U+03B7">>, <<"U+0398", "U+03B8">>, <<"U+0399", "U+03B9">>,
      <<"U+039A", "U+03BA">>, <<"U+039B", "U+03BB">>, <<"U+039C", "U+03BC">>,
      <<"U+039D", "U+03BD">>, <<"U+039E", "U+03BE">>, <<"U+039F", "U+03BF">>,
      <<"U+03A0", "U+03C0">>, <<"U+03A1", "U+03C1">>, <<"U+03A3", "U+03C3">>,
      <<"U+03A4", "U+03C4">>, <<"U+03A5", "U+03C5">>, <<"U+03A6", "U+03C6">>,
      <<"U+03A7", "U+03C7">>, <<"U+03A8", "U+03C8">>, <<"U+03A9", "U+03C9">>,
      <<"U+03AA", "U+03CA">>, <<"U+03AB", "U+03CB">>, <<"U+03CF", "U+03D7">>,
      <<"U+03D8", "U+03D9">>, <<"U+03DA", "U+03DB">>, <<"U+03DC", "U+03DD">>,
      <<"U+03DE", "U+03DF">>, <<"U+03E0", "U+03E1">>, <<"U+03E2", "U+03E3">>,
      <<"U+03E4", "U+03E5">>, <<"U+03E6", "U+03E7">>, <<"U+03E8", "U+03E9">>,
      <<"U+03EA", "U+03EB">>, <<"U+03EC", "U+03ED">>, <<"U+03EE", "U+03EF">>,
      <<"U+03F4", "U+03B8">>, <<"U+03F7", "U+03F8">>, <<"U+03F9", "U+03F2">>,
      <<"U+03FA", "U+03FB">>, <<"U+03FD", "U+037B">>, <<"U+03FE", "U+037C">>,
      <<"U+03FF", "U+037D">>, <<"U+0400", "U+0450">>, <<"U+0401", "U+0451">>,
      <<"U+0402", "U+0452">>, <<"U+0403", "U+0453">>, <<"U+0404", "U+0454">>,
      <<"U+0405", "U+0455">>, <<"U+0406", "U+0456">>, <<"U+0407", "U+0457">>,
      <<"U+0408", "U+0458">>, <<"U+0409", "U+0459">>, <<"U+040A", "U+045A">>,
      <<"U+040B", "U+045B">>, <<"U+040C", "U+045C">>, <<"U+040D", "U+045D">>,
      <<"U+040E", "U+045E">>, <<"U+040F", "U+045F">>, <<"U+0410", "U+0430">>,
      <<"U+0411", "U+0431">>, <<"U+0412", "U+0432">>, <<"U+0413", "U+0433">>,
      <<"U+0414", "U+0434">>, <<"U+0415", "U+0435">>, <<"U+0416", "U+0436">>,
      <<"U+0417", "U+0437">>, <<"U+0418", "U+0438">>, <<"U+0419", "U+0439">>,
      <<"U+041A", "U+043A">>, <<"U+041B", "U+043B">>, <<"U+041C", "U+043C">>,
      <<"U+041D", "U+043D">>, <<"U+041E", "U+043E">>, <<"U+041F", "U+043F">>,
      <<"U+0420", "U+0440">>, <<"U+0421", "U+0441">>, <<"U+0422", "U+0442">>,
      <<"U+0423", "U+0443">>, <<"U+0424", "U+0444">>, <<"U+0425", "U+0445">>,
      <<"U+0426", "U+0446">>, <<"U+0427", "U+0447">>, <<"U+0428", "U+0448">>,
      <<"U+0429", "U+0449">>, <<"U+042A", "U+044A">>, <<"U+042B", "U+044B">>,
      <<"U+042C", "U+044C">>, <<"U+042D", "U+044D">>, <<"U+042E", "U+044E">>,
      <<"U+042F", "U+044F">>, <<"U+0460", "U+0461">>, <<"U+0462", "U+0463">>,
      <<"U+0464", "U+0465">>, <<"U+0466", "U+0467">>, <<"U+0468", "U+0469">>,
      <<"U+046A", "U+046B">>, <<"U+046C", "U+046D">>, <<"U+046E", "U+046F">>,
      <<"U+0470", "U+0471">>, <<"U+0472", "U+0473">>, <<"U+0474", "U+0475">>,
      <<"U+0476", "U+0477">>, <<"U+0478", "U+0479">>, <<"U+047A", "U+047B">>,
      <<"U+047C", "U+047D">>, <<"U+047E", "U+047F">>, <<"U+0480", "U+0481">>,
      <<"U+048A", "U+048B">>, <<"U+048C", "U+048D">>, <<"U+048E", "U+048F">>,
      <<"U+0490", "U+0491">>, <<"U+0492", "U+0493">>, <<"U+0494", "U+0495">>,
      <<"U+0496", "U+0497">>, <<"U+0498", "U+0499">>, <<"U+049A", "U+049B">>,
      <<"U+049C", "U+049D">>, <<"U+049E", "U+049F">>, <<"U+04A0", "U+04A1">>,
      <<"U+04A2", "U+04A3">>, <<"U+04A4", "U+04A5">>, <<"U+04A6", "U+04A7">>,
      <<"U+04A8", "U+04A9">>, <<"U+04AA", "U+04AB">>, <<"U+04AC", "U+04AD">>,
      <<"U+04AE", "U+04AF">>, <<"U+04B0", "U+04B1">>, <<"U+04B2", "U+04B3">>,
      <<"U+04B4", "U+04B5">>, <<"U+04B6", "U+04B7">>, <<"U+04B8", "U+04B9">>,
      <<"U+04BA", "U+04BB">>, <<"U+04BC", "U+04BD">>, <<"U+04BE", "U+04BF">>,
      <<"U+04C0", "U+04CF">>, <<"U+04C1", "U+04C2">>, <<"U+04C3", "U+04C4">>,
      <<"U+04C5", "U+04C6">>, <<"U+04C7", "U+04C8">>, <<"U+04C9", "U+04CA">>,
      <<"U+04CB", "U+04CC">>, <<"U+04CD", "U+04CE">>, <<"U+04D0", "U+04D1">>,
      <<"U+04D2", "U+04D3">>, <<"U+04D4", "U+04D5">>, <<"U+04D6", "U+04D7">>,
      <<"U+04D8", "U+04D9">>, <<"U+04DA", "U+04DB">>, <<"U+04DC", "U+04DD">>,
      <<"U+04DE", "U+04DF">>, <<"U+04E0", "U+04E1">>, <<"U+04E2", "U+04E3">>,
      <<"U+04E4", "U+04E5">>, <<"U+04E6", "U+04E7">>, <<"U+04E8", "U+04E9">>,
      <<"U+04EA", "U+04EB">>, <<"U+04EC", "U+04ED">>, <<"U+04EE", "U+04EF">>,
      <<"U+04F0", "U+04F1">>, <<"U+04F2", "U+04F3">>, <<"U+04F4", "U+04F5">>,
      <<"U+04F6", "U+04F7">>, <<"U+04F8", "U+04F9">>, <<"U+04FA", "U+04FB">>,
      <<"U+04FC", "U+04FD">>, <<"U+04FE", "U+04FF">>, <<"U+0500", "U+0501">>,
      <<"U+0502", "U+0503">>, <<"U+0504", "U+0505">>, <<"U+0506", "U+0507">>,
      <<"U+0508", "U+0509">>, <<"U+050A", "U+050B">>, <<"U+050C", "U+050D">>,
      <<"U+050E", "U+050F">>, <<"U+0510", "U+0511">>, <<"U+0512", "U+0513">>,
      <<"U+0514", "U+0515">>, <<"U+0516", "U+0517">>, <<"U+0518", "U+0519">>,
      <<"U+051A", "U+051B">>, <<"U+051C", "U+051D">>, <<"U+051E", "U+051F">>,
      <<"U+0520", "U+0521">>, <<"U+0522", "U+0523">>, <<"U+0524", "U+0525">>,
      <<"U+0526", "U+0527">>, <<"U+0528", "U+0529">>, <<"U+052A", "U+052B">>,
      <<"U+052C", "U+052D">>, <<"U+052E", "U+052F">>, <<"U+0531", "U+0561">>,
      <<"U+0532", "U+0562">>, <<"U+0533", "U+0563">>, <<"U+0534", "U+0564">>,
      <<"U+0535", "U+0565">>, <<"U+0536", "U+0566">>, <<"U+0537", "U+0567">>,
      <<"U+0538", "U+0568">>, <<"U+0539", "U+0569">>, <<"U+053A", "U+056A">>,
      <<"U+053B", "U+056B">>, <<"U+053C", "U+056C">>, <<"U+053D", "U+056D">>,
      <<"U+053E", "U+056E">>, <<"U+053F", "U+056F">>, <<"U+0540", "U+0570">>,
      <<"U+0541", "U+0571">>, <<"U+0542", "U+0572">>, <<"U+0543", "U+0573">>,
      <<"U+0544", "U+0574">>, <<"U+0545", "U+0575">>, <<"U+0546", "U+0576">>,
      <<"U+0547", "U+0577">>, <<"U+0548", "U+0578">>, <<"U+0549", "U+0579">>,
      <<"U+054A", "U+057A">>, <<"U+054B", "U+057B">>, <<"U+054C", "U+057C">>,
      <<"U+054D", "U+057D">>, <<"U+054E", "U+057E">>, <<"U+054F", "U+057F">>,
      <<"U+0550", "U+0580">>, <<"U+0551", "U+0581">>, <<"U+0552", "U+0582">>,
      <<"U+0553", "U+0583">>, <<"U+0554", "U+0584">>, <<"U+0555", "U+0585">>,
      <<"U+0556", "U+0586">>, <<"U+10A0", "U+2D00">>, <<"U+10A1", "U+2D01">>,
      <<"U+10A2", "U+2D02">>, <<"U+10A3", "U+2D03">>, <<"U+10A4", "U+2D04">>,
      <<"U+10A5", "U+2D05">>, <<"U+10A6", "U+2D06">>, <<"U+10A7", "U+2D07">>,
      <<"U+10A8", "U+2D08">>, <<"U+10A9", "U+2D09">>, <<"U+10AA", "U+2D0A">>,
      <<"U+10AB", "U+2D0B">>, <<"U+10AC", "U+2D0C">>, <<"U+10AD", "U+2D0D">>,
      <<"U+10AE", "U+2D0E">>, <<"U+10AF", "U+2D0F">>, <<"U+10B0", "U+2D10">>,
      <<"U+10B1", "U+2D11">>, <<"U+10B2", "U+2D12">>, <<"U+10B3", "U+2D13">>,
      <<"U+10B4", "U+2D14">>, <<"U+10B5", "U+2D15">>, <<"U+10B6", "U+2D16">>,
      <<"U+10B7", "U+2D17">>, <<"U+10B8", "U+2D18">>, <<"U+10B9", "U+2D19">>,
      <<"U+10BA", "U+2D1A">>, <<"U+10BB", "U+2D1B">>, <<"U+10BC", "U+2D1C">>,
      <<"U+10BD", "U+2D1D">>, <<"U+10BE", "U+2D1E">>, <<"U+10BF", "U+2D1F">>,
      <<"U+10C0", "U+2D20">>, <<"U+10C1", "U+2D21">>, <<"U+10C2", "U+2D22">>,
      <<"U+10C3", "U+2D23">>, <<"U+10C4", "U+2D24">>, <<"U+10C5", "U+2D25">>,
      <<"U+10C7", "U+2D27">>, <<"U+10CD", "U+2D2D">>, <<"U+13A0", "U+AB70">>,
      <<"U+13A1", "U+AB71">>, <<"U+13A2", "U+AB72">>, <<"U+13A3", "U+AB73">>,
      <<"U+13A4", "U+AB74">>, <<"U+13A5", "U+AB75">>, <<"U+13A6", "U+AB76">>,
      <<"U+13A7", "U+AB77">>, <<"U+13A8", "U+AB78">>, <<"U+13A9", "U+AB79">>,
      <<"U+13AA", "U+AB7A">>, <<"U+13AB", "U+AB7B">>, <<"U+13AC", "U+AB7C">>,
      <<"U+13AD", "U+AB7D">>, <<"U+13AE", "U+AB7E">>, <<"U+13AF", "U+AB7F">>,
      <<"U+13B0", "U+AB80">>, <<"U+13B1", "U+AB81">>, <<"U+13B2", "U+AB82">>,
      <<"U+13B3", "U+AB83">>, <<"U+13B4", "U+AB84">>, <<"U+13B5", "U+AB85">>,
      <<"U+13B6", "U+AB86">>, <<"U+13B7", "U+AB87">>, <<"U+13B8", "U+AB88">>,
      <<"U+13B9", "U+AB89">>, <<"U+13BA", "U+AB8A">>, <<"U+13BB", "U+AB8B">>,
      <<"U+13BC", "U+AB8C">>, <<"U+13BD", "U+AB8D">>, <<"U+13BE", "U+AB8E">>,
      <<"U+13BF", "U+AB8F">>, <<"U+13C0", "U+AB90">>, <<"U+13C1", "U+AB91">>,
      <<"U+13C2", "U+AB92">>, <<"U+13C3", "U+AB93">>, <<"U+13C4", "U+AB94">>,
      <<"U+13C5", "U+AB95">>, <<"U+13C6", "U+AB96">>, <<"U+13C7", "U+AB97">>,
      <<"U+13C8", "U+AB98">>, <<"U+13C9", "U+AB99">>, <<"U+13CA", "U+AB9A">>,
      <<"U+13CB", "U+AB9B">>, <<"U+13CC", "U+AB9C">>, <<"U+13CD", "U+AB9D">>,
      <<"U+13CE", "U+AB9E">>, <<"U+13CF", "U+AB9F">>, <<"U+13D0", "U+ABA0">>,
      <<"U+13D1", "U+ABA1">>, <<"U+13D2", "U+ABA2">>, <<"U+13D3", "U+ABA3">>,
      <<"U+13D4", "U+ABA4">>, <<"U+13D5", "U+ABA5">>, <<"U+13D6", "U+ABA6">>,
      <<"U+13D7", "U+ABA7">>, <<"U+13D8", "U+ABA8">>, <<"U+13D9", "U+ABA9">>,
      <<"U+13DA", "U+ABAA">>, <<"U+13DB", "U+ABAB">>, <<"U+13DC", "U+ABAC">>,
      <<"U+13DD", "U+ABAD">>, <<"U+13DE", "U+ABAE">>, <<"U+13DF", "U+ABAF">>,
      <<"U+13E0", "U+ABB0">>, <<"U+13E1", "U+ABB1">>, <<"U+13E2", "U+ABB2">>,
      <<"U+13E3", "U+ABB3">>, <<"U+13E4", "U+ABB4">>, <<"U+13E5", "U+ABB5">>,
      <<"U+13E6", "U+ABB6">>, <<"U+13E7", "U+ABB7">>, <<"U+13E8", "U+ABB8">>,
      <<"U+13E9", "U+ABB9">>, <<"U+13EA", "U+ABBA">>, <<"U+13EB", "U+ABBB">>,
      <<"U+13EC", "U+ABBC">>, <<"U+13ED", "U+ABBD">>, <<"U+13EE", "U+ABBE">>,
      <<"U+13EF", "U+ABBF">>, <<"U+13F0", "U+13F8">>, <<"U+13F1", "U+13F9">>,
      <<"U+13F2", "U+13FA">>, <<"U+13F3", "U+13FB">>, <<"U+13F4", "U+13FC">>,
      <<"U+13F5", "U+13FD">>, <<"U+1C89", "U+1C8A">>, <<"U+1C90", "U+10D0">>,
      <<"U+1C91", "U+10D1">>, <<"U+1C92", "U+10D2">>, <<"U+1C93", "U+10D3">>,
      <<"U+1C94", "U+10D4">>, <<"U+1C95", "U+10D5">>, <<"U+1C96", "U+10D6">>,
      <<"U+1C97", "U+10D7">>, <<"U+1C98", "U+10D8">>, <<"U+1C99", "U+10D9">>,
      <<"U+1C9A", "U+10DA">>, <<"U+1C9B", "U+10DB">>, <<"U+1C9C", "U+10DC">>,
      <<"U+1C9D", "U+10DD">>, <<"U+1C9E", "U+10DE">>, <<"U+1C9F", "U+10DF">>,
      <<"U+1CA0", "U+10E0">>, <<"U+1CA1", "U+10E1">>, <<"U+1CA2", "U+10E2">>,
      <<"U+1CA3", "U+10E3">>, <<"U+1CA4", "U+10E4">>, <<"U+1CA5", "U+10E5">>,
      <<"U+1CA6", "U+10E6">>, <<"U+1CA7", "U+10E7">>, <<"U+1CA8", "U+10E8">>,
      <<"U+1CA9", "U+10E9">>, <<"U+1CAA", "U+10EA">>, <<"U+1CAB", "U+10EB">>,
      <<"U+1CAC", "U+10EC">>, <<"U+1CAD", "U+10ED">>, <<"U+1CAE", "U+10EE">>,
      <<"U+1CAF", "U+10EF">>, <<"U+1CB0", "U+10F0">>, <<"U+1CB1", "U+10F1">>,
      <<"U+1CB2", "U+10F2">>, <<"U+1CB3", "U+10F3">>, <<"U+1CB4", "U+10F4">>,
      <<"U+1CB5", "U+10F5">>, <<"U+1CB6", "U+10F6">>, <<"U+1CB7", "U+10F7">>,
      <<"U+1CB8", "U+10F8">>, <<"U+1CB9", "U+10F9">>, <<"U+1CBA", "U+10FA">>,
      <<"U+1CBD", "U+10FD">>, <<"U+1CBE", "U+10FE">>, <<"U+1CBF", "U+10FF">>,
      <<"U+1E00", "U+1E01">>, <<"U+1E02", "U+1E03">>, <<"U+1E04", "U+1E05">>,
      <<"U+1E06", "U+1E07">>, <<"U+1E08", "U+1E09">>, <<"U+1E0A", "U+1E0B">>,
      <<"U+1E0C", "U+1E0D">>, <<"U+1E0E", "U+1E0F">>, <<"U+1E10", "U+1E11">>,
      <<"U+1E12", "U+1E13">>, <<"U+1E14", "U+1E15">>, <<"U+1E16", "U+1E17">>,
      <<"U+1E18", "U+1E19">>, <<"U+1E1A", "U+1E1B">>, <<"U+1E1C", "U+1E1D">>,
      <<"U+1E1E", "U+1E1F">>, <<"U+1E20", "U+1E21">>, <<"U+1E22", "U+1E23">>,
      <<"U+1E24", "U+1E25">>, <<"U+1E26", "U+1E27">>, <<"U+1E28", "U+1E29">>,
      <<"U+1E2A", "U+1E2B">>, <<"U+1E2C", "U+1E2D">>, <<"U+1E2E", "U+1E2F">>,
      <<"U+1E30", "U+1E31">>, <<"U+1E32", "U+1E33">>, <<"U+1E34", "U+1E35">>,
      <<"U+1E36", "U+1E37">>, <<"U+1E38", "U+1E39">>, <<"U+1E3A", "U+1E3B">>,
      <<"U+1E3C", "U+1E3D">>, <<"U+1E3E", "U+1E3F">>, <<"U+1E40", "U+1E41">>,
      <<"U+1E42", "U+1E43">>, <<"U+1E44", "U+1E45">>, <<"U+1E46", "U+1E47">>,
      <<"U+1E48", "U+1E49">>, <<"U+1E4A", "U+1E4B">>, <<"U+1E4C", "U+1E4D">>,
      <<"U+1E4E", "U+1E4F">>, <<"U+1E50", "U+1E51">>, <<"U+1E52", "U+1E53">>,
      <<"U+1E54", "U+1E55">>, <<"U+1E56", "U+1E57">>, <<"U+1E58", "U+1E59">>,
      <<"U+1E5A", "U+1E5B">>, <<"U+1E5C", "U+1E5D">>, <<"U+1E5E", "U+1E5F">>,
      <<"U+1E60", "U+1E61">>, <<"U+1E62", "U+1E63">>, <<"U+1E64", "U+1E65">>,
      <<"U+1E66", "U+1E67">>, <<"U+1E68", "U+1E69">>, <<"U+1E6A", "U+1E6B">>,
      <<"U+1E6C", "U+1E6D">>, <<"U+1E6E", "U+1E6F">>, <<"U+1E70", "U+1E71">>,
      <<"U+1E72", "U+1E73">>, <<"U+1E74", "U+1E75">>, <<"U+1E76", "U+1E77">>,
      <<"U+1E78", "U+1E79">>, <<"U+1E7A", "U+1E7B">>, <<"U+1E7C", "U+1E7D">>,
      <<"U+1E7E", "U+1E7F">>, <<"U+1E80", "U+1E81">>, <<"U+1E82", "U+1E83">>,
      <<"U+1E84", "U+1E85">>, <<"U+1E86", "U+1E87">>, <<"U+1E88", "U+1E89">>,
      <<"U+1E8A", "U+1E8B">>, <<"U+1E8C", "U+1E8D">>, <<"U+1E8E", "U+1E8F">>,
      <<"U+1E90", "U+1E91">>, <<"U+1E92", "U+1E93">>, <<"U+1E94", "U+1E95">>,
      <<"U+1E9E", "U+00DF">>, <<"U+1EA0", "U+1EA1">>, <<"U+1EA2", "U+1EA3">>,
      <<"U+1EA4", "U+1EA5">>, <<"U+1EA6", "U+1EA7">>, <<"U+1EA8", "U+1EA9">>,
      <<"U+1EAA", "U+1EAB">>, <<"U+1EAC", "U+1EAD">>, <<"U+1EAE", "U+1EAF">>,
      <<"U+1EB0", "U+1EB1">>, <<"U+1EB2", "U+1EB3">>, <<"U+1EB4", "U+1EB5">>,
      <<"U+1EB6", "U+1EB7">>, <<"U+1EB8", "U+1EB9">>, <<"U+1EBA", "U+1EBB">>,
      <<"U+1EBC", "U+1EBD">>, <<"U+1EBE", "U+1EBF">>, <<"U+1EC0", "U+1EC1">>,
      <<"U+1EC2", "U+1EC3">>, <<"U+1EC4", "U+1EC5">>, <<"U+1EC6", "U+1EC7">>,
      <<"U+1EC8", "U+1EC9">>, <<"U+1ECA", "U+1ECB">>, <<"U+1ECC", "U+1ECD">>,
      <<"U+1ECE", "U+1ECF">>, <<"U+1ED0", "U+1ED1">>, <<"U+1ED2", "U+1ED3">>,
      <<"U+1ED4", "U+1ED5">>, <<"U+1ED6", "U+1ED7">>, <<"U+1ED8", "U+1ED9">>,
      <<"U+1EDA", "U+1EDB">>, <<"U+1EDC", "U+1EDD">>, <<"U+1EDE", "U+1EDF">>,
      <<"U+1EE0", "U+1EE1">>, <<"U+1EE2", "U+1EE3">>, <<"U+1EE4", "U+1EE5">>,
      <<"U+1EE6", "U+1EE7">>, <<"U+1EE8", "U+1EE9">>, <<"U+1EEA", "U+1EEB">>,
      <<"U+1EEC", "U+1EED">>, <<"U+1EEE", "U+1EEF">>, <<"U+1EF0", "U+1EF1">>,
      <<"U+1EF2", "U+1EF3">>, <<"U+1EF4", "U+1EF5">>, <<"U+1EF6", "U+1EF7">>,
      <<"U+1EF8", "U+1EF9">>, <<"U+1EFA", "U+1EFB">>, <<"U+1EFC", "U+1EFD">>,
      <<"U+1EFE", "U+1EFF">>, <<"U+1F08", "U+1F00">>, <<"U+1F09", "U+1F01">>,
      <<"U+1F0A", "U+1F02">>, <<"U+1F0B", "U+1F03">>, <<"U+1F0C", "U+1F04">>,
      <<"U+1F0D", "U+1F05">>, <<"U+1F0E", "U+1F06">>, <<"U+1F0F", "U+1F07">>,
      <<"U+1F18", "U+1F10">>, <<"U+1F19", "U+1F11">>, <<"U+1F1A", "U+1F12">>,
      <<"U+1F1B", "U+1F13">>, <<"U+1F1C", "U+1F14">>, <<"U+1F1D", "U+1F15">>,
      <<"U+1F28", "U+1F20">>, <<"U+1F29", "U+1F21">>, <<"U+1F2A", "U+1F22">>,
      <<"U+1F2B", "U+1F23">>, <<"U+1F2C", "U+1F24">>, <<"U+1F2D", "U+1F25">>,
      <<"U+1F2E", "U+1F26">>, <<"U+1F2F", "U+1F27">>, <<"U+1F38", "U+1F30">>,
      <<"U+1F39", "U+1F31">>, <<"U+1F3A", "U+1F32">>, <<"U+1F3B", "U+1F33">>,
      <<"U+1F3C", "U+1F34">>, <<"U+1F3D", "U+1F35">>, <<"U+1F3E", "U+1F36">>,
      <<"U+1F3F", "U+1F37">>, <<"U+1F48", "U+1F40">>, <<"U+1F49", "U+1F41">>,
      <<"U+1F4A", "U+1F42">>, <<"U+1F4B", "U+1F43">>, <<"U+1F4C", "U+1F44">>,
      <<"U+1F4D", "U+1F45">>, <<"U+1F59", "U+1F51">>, <<"U+1F5B", "U+1F53">>,
      <<"U+1F5D", "U+1F55">>, <<"U+1F5F", "U+1F57">>, <<"U+1F68", "U+1F60">>,
      <<"U+1F69", "U+1F61">>, <<"U+1F6A", "U+1F62">>, <<"U+1F6B", "U+1F63">>,
      <<"U+1F6C", "U+1F64">>, <<"U+1F6D", "U+1F65">>, <<"U+1F6E", "U+1F66">>,
      <<"U+1F6F", "U+1F67">>, <<"U+1F88", "U+1F80">>, <<"U+1F89", "U+1F81">>,
      <<"U+1F8A", "U+1F82">>, <<"U+1F8B", "U+1F83">>, <<"U+1F8C", "U+1F84">>,
      <<"U+1F8D", "U+1F85">>, <<"U+1F8E", "U+1F86">>, <<"U+1F8F", "U+1F87">>,
      <<"U+1F98", "U+1F90">>, <<"U+1F99", "U+1F91">>, <<"U+1F9A", "U+1F92">>,
      <<"U+1F9B", "U+1F93">>, <<"U+1F9C", "U+1F94">>, <<"U+1F9D", "U+1F95">>,
      <<"U+1F9E", "U+1F96">>, <<"U+1F9F", "U+1F97">>, <<"U+1FA8", "U+1FA0">>,
      <<"U+1FA9", "U+1FA1">>, <<"U+1FAA", "U+1FA2">>, <<"U+1FAB", "U+1FA3">>,
      <<"U+1FAC", "U+1FA4">>, <<"U+1FAD", "U+1FA5">>, <<"U+1FAE", "U+1FA6">>,
      <<"U+1FAF", "U+1FA7">>, <<"U+1FB8", "U+1FB0">>, <<"U+1FB9", "U+1FB1">>,
      <<"U+1FBA", "U+1F70">>, <<"U+1FBB", "U+1F71">>, <<"U+1FBC", "U+1FB3">>,
      <<"U+1FC8", "U+1F72">>, <<"U+1FC9", "U+1F73">>, <<"U+1FCA", "U+1F74">>,
      <<"U+1FCB", "U+1F75">>, <<"U+1FCC", "U+1FC3">>, <<"U+1FD8", "U+1FD0">>,
      <<"U+1FD9", "U+1FD1">>, <<"U+1FDA", "U+1F76">>, <<"U+1FDB", "U+1F77">>,
      <<"U+1FE8", "U+1FE0">>, <<"U+1FE9", "U+1FE1">>, <<"U+1FEA", "U+1F7A">>,
      <<"U+1FEB", "U+1F7B">>, <<"U+1FEC", "U+1FE5">>, <<"U+1FF8", "U+1F78">>,
      <<"U+1FF9", "U+1F79">>, <<"U+1FFA", "U+1F7C">>, <<"U+1FFB", "U+1F7D">>,
      <<"U+1FFC", "U+1FF3">>, <<"U+2126", "U+03C9">>, <<"U+212A", "k">>,
      <<"U+212B", "U+00E5">>, <<"U+2132", "U+214E">>, <<"U+2160", "U+2170">>,
      <<"U+2161", "U+2171">>, <<"U+2162", "U+2172">>, <<"U+2163", "U+2173">>,
      <<"U+2164", "U+2174">>, <<"U+2165", "U+2175">>, <<"U+2166", "U+2176">>,
      <<"U+2167", "U+2177">>, <<"U+2168", "U+2178">>, <<"U+2169", "U+2179">>,
      <<"U+216A", "U+217A">>, <<"U+216B", "U+217B">>, <<"U+216C", "U+217C">>,
      <<"U+216D", "U+217D">>, <<"U+216E", "U+217E">>, <<"U+216F", "U+217F">>,
      <<"U+2183", "U+2184">>, <<"U+24B6", "U+24D0">>, <<"U+24B7", "U+24D1">>,
      <<"U+24B8", "U+24D2">>, <<"U+24B9", "U+24D3">>, <<"U+24BA", "U+24D4">>,
      <<"U+24BB", "U+24D5">>, <<"U+24BC", "U+24D6">>, <<"U+24BD", "U+24D7">>,
      <<"U+24BE", "U+24D8">>, <<"U+24BF", "U+24D9">>, <<"U+24C0", "U+24DA">>,
      <<"U+24C1", "U+24DB">>, <<"U+24C2", "U+24DC">>, <<"U+24C3", "U+24DD">>,
      <<"U+24C4", "U+24DE">>, <<"U+24C5", "U+24DF">>, <<"U+24C6", "U+24E0">>,
      <<"U+24C7", "U+24E1">>, <<"U+24C8", "U+24E2">>, <<"U+24C9", "U+24E3">>,
      <<"U+24CA", "U+24E4">>, <<"U+24CB", "U+24E5">>, <<"U+24CC", "U+24E6">>,
      <<"U+24CD", "U+24E7">>, <<"U+24CE", "U+24E8">>, <<"U+24CF", "U+24E9">>,
      <<"U+2C00", "U+2C30">>, <<"U+2C01", "U+2C31">>, <<"U+2C02", "U+2C32">>,
      <<"U+2C03", "U+2C33">>, <<"U+2C04", "U+2C34">>, <<"U+2C05", "U+2C35">>,
      <<"U+2C06", "U+2C36">>, <<"U+2C07", "U+2C37">>, <<"U+2C08", "U+2C38">>,
      <<"U+2C09", "U+2C39">>, <<"U+2C0A", "U+2C3A">>, <<"U+2C0B", "U+2C3B">>,
      <<"U+2C0C", "U+2C3C">>, <<"U+2C0D", "U+2C3D">>, <<"U+2C0E", "U+2C3E">>,
      <<"U+2C0F", "U+2C3F">>, <<"U+2C10", "U+2C40">>, <<"U+2C11", "U+2C41">>,
      <<"U+2C12", "U+2C42">>, <<"U+2C13", "U+2C43">>, <<"U+2C14", "U+2C44">>,
      <<"U+2C15", "U+2C45">>, <<"U+2C16", "U+2C46">>, <<"U+2C17", "U+2C47">>,
      <<"U+2C18", "U+2C48">>, <<"U+2C19", "U+2C49">>, <<"U+2C1A", "U+2C4A">>,
      <<"U+2C1B", "U+2C4B">>, <<"U+2C1C", "U+2C4C">>, <<"U+2C1D", "U+2C4D">>,
      <<"U+2C1E", "U+2C4E">>, <<"U+2C1F", "U+2C4F">>, <<"U+2C20", "U+2C50">>,
      <<"U+2C21", "U+2C51">>, <<"U+2C22", "U+2C52">>, <<"U+2C23", "U+2C53">>,
      <<"U+2C24", "U+2C54">>, <<"U+2C25", "U+2C55">>, <<"U+2C26", "U+2C56">>,
      <<"U+2C27", "U+2C57">>, <<"U+2C28", "U+2C58">>, <<"U+2C29", "U+2C59">>,
      <<"U+2C2A", "U+2C5A">>, <<"U+2C2B", "U+2C5B">>, <<"U+2C2C", "U+2C5C">>,
      <<"U+2C2D", "U+2C5D">>, <<"U+2C2E", "U+2C5E">>, <<"U+2C2F", "U+2C5F">>,
      <<"U+2C60", "U+2C61">>, <<"U+2C62", "U+026B">>, <<"U+2C63", "U+1D7D">>,
      <<"U+2C64", "U+027D">>, <<"U+2C67", "U+2C68">>, <<"U+2C69", "U+2C6A">>,
      <<"U+2C6B", "U+2C6C">>, <<"U+2C6D", "U+0251">>, <<"U+2C6E", "U+0271">>,
      <<"U+2C6F", "U+0250">>, <<"U+2C70", "U+0252">>, <<"U+2C72", "U+2C73">>,
      <<"U+2C75", "U+2C76">>, <<"U+2C7E", "U+023F">>, <<"U+2C7F", "U+0240">>,
      <<"U+2C80", "U+2C81">>, <<"U+2C82", "U+2C83">>, <<"U+2C84", "U+2C85">>,
      <<"U+2C86", "U+2C87">>, <<"U+2C88", "U+2C89">>, <<"U+2C8A", "U+2C8B">>,
      <<"U+2C8C", "U+2C8D">>, <<"U+2C8E", "U+2C8F">>, <<"U+2C90", "U+2C91">>,
      <<"U+2C92", "U+2C93">>, <<"U+2C94", "U+2C95">>, <<"U+2C96", "U+2C97">>,
      <<"U+2C98", "U+2C99">>, <<"U+2C9A", "U+2C9B">>, <<"U+2C9C", "U+2C9D">>,
      <<"U+2C9E", "U+2C9F">>, <<"U+2CA0", "U+2CA1">>, <<"U+2CA2", "U+2CA3">>,
      <<"U+2CA4", "U+2CA5">>, <<"U+2CA6", "U+2CA7">>, <<"U+2CA8", "U+2CA9">>,
      <<"U+2CAA", "U+2CAB">>, <<"U+2CAC", "U+2CAD">>, <<"U+2CAE", "U+2CAF">>,
      <<"U+2CB0", "U+2CB1">>, <<"U+2CB2", "U+2CB3">>, <<"U+2CB4", "U+2CB5">>,
      <<"U+2CB6", "U+2CB7">>, <<"U+2CB8", "U+2CB9">>, <<"U+2CBA", "U+2CBB">>,
      <<"U+2CBC", "U+2CBD">>, <<"U+2CBE", "U+2CBF">>, <<"U+2CC0", "U+2CC1">>,
      <<"U+2CC2", "U+2CC3">>, <<"U+2CC4", "U+2CC5">>, <<"U+2CC6", "U+2CC7">>,
      <<"U+2CC8", "U+2CC9">>, <<"U+2CCA", "U+2CCB">>, <<"U+2CCC", "U+2CCD">>,
      <<"U+2CCE", "U+2CCF">>, <<"U+2CD0", "U+2CD1">>, <<"U+2CD2", "U+2CD3">>,
      <<"U+2CD4", "U+2CD5">>, <<"U+2CD6", "U+2CD7">>, <<"U+2CD8", "U+2CD9">>,
      <<"U+2CDA", "U+2CDB">>, <<"U+2CDC", "U+2CDD">>, <<"U+2CDE", "U+2CDF">>,
      <<"U+2CE0", "U+2CE1">>, <<"U+2CE2", "U+2CE3">>, <<"U+2CEB", "U+2CEC">>,
      <<"U+2CED", "U+2CEE">>, <<"U+2CF2", "U+2CF3">>, <<"U+A640", "U+A641">>,
      <<"U+A642", "U+A643">>, <<"U+A644", "U+A645">>, <<"U+A646", "U+A647">>,
      <<"U+A648", "U+A649">>, <<"U+A64A", "U+A64B">>, <<"U+A64C", "U+A64D">>,
      <<"U+A64E", "U+A64F">>, <<"U+A650", "U+A651">>, <<"U+A652", "U+A653">>,
      <<"U+A654", "U+A655">>, <<"U+A656", "U+A657">>, <<"U+A658", "U+A659">>,
      <<"U+A65A", "U+A65B">>, <<"U+A65C", "U+A65D">>, <<"U+A65E", "U+A65F">>,
      <<"U+A660", "U+A661">>, <<"U+A662", "U+A663">>, <<"U+A664", "U+A665">>,
      <<"U+A666", "U+A667">>, <<"U+A668", "U+A669">>, <<"U+A66A", "U+A66B">>,
      <<"U+A66C", "U+A66D">>, <<"U+A680", "U+A681">>, <<"U+A682", "U+A683">>,
      <<"U+A684", "U+A685">>, <<"U+A686", "U+A687">>, <<"U+A688", "U+A689">>,
      <<"U+A68A", "U+A68B">>, <<"U+A68C", "U+A68D">>, <<"U+A68E", "U+A68F">>,
      <<"U+A690", "U+A691">>, <<"U+A692", "U+A693">>, <<"U+A694", "U+A695">>,
      <<"U+A696", "U+A697">>, <<"U+A698", "U+A699">>, <<"U+A69A", "U+A69B">>,
      <<"U+A722", "U+A723">>, <<"U+A724", "U+A725">>, <<"U+A726", "U+A727">>,
      <<"U+A728", "U+A729">>, <<"U+A72A", "U+A72B">>, <<"U+A72C", "U+A72D">>,
      <<"U+A72E", "U+A72F">>, <<"U+A732", "U+A733">>, <<"U+A734", "U+A735">>,
      <<"U+A736", "U+A737">>, <<"U+A738", "U+A739">>, <<"U+A73A", "U+A73B">>,
      <<"U+A73C", "U+A73D">>, <<"U+A73E", "U+A73F">>, <<"U+A740", "U+A741">>,
      <<"U+A742", "U+A743">>, <<"U+A744", "U+A745">>, <<"U+A746", "U+A747">>,
      <<"U+A748", "U+A749">>, <<"U+A74A", "U+A74B">>, <<"U+A74C", "U+A74D">>,
      <<"U+A74E", "U+A74F">>, <<"U+A750", "U+A751">>, <<"U+A752", "U+A753">>,
      <<"U+A754", "U+A755">>, <<"U+A756", "U+A757">>, <<"U+A758", "U+A759">>,
      <<"U+A75A", "U+A75B">>, <<"U+A75C", "U+A75D">>, <<"U+A75E", "U+A75F">>,
      <<"U+A760", "U+A761">>, <<"U+A762", "U+A763">>, <<"U+A764", "U+A765">>,
      <<"U+A766", "U+A767">>, <<"U+A768", "U+A769">>, <<"U+A76A", "U+A76B">>,
      <<"U+A76C", "U+A76D">>, <<"U+A76E", "U+A76F">>, <<"U+A779", "U+A77A">>,
      <<"U+A77B", "U+A77C">>, <<"U+A77D", "U+1D79">>, <<"U+A77E", "U+A77F">>,
      <<"U+A780", "U+A781">>, <<"U+A782", "U+A783">>, <<"U+A784", "U+A785">>,
      <<"U+A786", "U+A787">>, <<"U+A78B", "U+A78C">>, <<"U+A78D", "U+0265">>,
      <<"U+A790", "U+A791">>, <<"U+A792", "U+A793">>, <<"U+A796", "U+A797">>,
      <<"U+A798", "U+A799">>, <<"U+A79A", "U+A79B">>, <<"U+A79C", "U+A79D">>,
      <<"U+A79E", "U+A79F">>, <<"U+A7A0", "U+A7A1">>, <<"U+A7A2", "U+A7A3">>,
      <<"U+A7A4", "U+A7A5">>, <<"U+A7A6", "U+A7A7">>, <<"U+A7A8", "U+A7A9">>,
      <<"U+A7AA", "U+0266">>, <<"U+A7AB", "U+025C">>, <<"U+A7AC", "U+0261">>,
      <<"U+A7AD", "U+026C">>, <<"U+A7AE", "U+026A">>, <<"U+A7B0", "U+029E">>,
      <<"U+A7B1", "U+0287">>, <<"U+A7B2", "U+029D">>, <<"U+A7B3", "U+AB53">>,
      <<"U+A7B4", "U+A7B5">>, <<"U+A7B6", "U+A7B7">>, <<"U+A7B8", "U+A7B9">>,
      <<"U+A7BA", "U+A7BB">>, <<"U+A7BC", "U+A7BD">>, <<"U+A7BE", "U+A7BF">>,
      <<"U+A7C0", "U+A7C1">>, <<"U+A7C2", "U+A7C3">>, <<"U+A7C4", "U+A794">>,
      <<"U+A7C5", "U+0282">>, <<"U+A7C6", "U+1D8E">>, <<"U+A7C7", "U+A7C8">>,
      <<"U+A7C9", "U+A7CA">>, <<"U+A7CB", "U+0264">>, <<"U+A7CC", "U+A7CD">>,
      <<"U+A7CE", "U+A7CF">>, <<"U+A7D0", "U+A7D1">>, <<"U+A7D2", "U+A7D3">>,
      <<"U+A7D4", "U+A7D5">>, <<"U+A7D6", "U+A7D7">>, <<"U+A7D8", "U+A7D9">>,
      <<"U+A7DA", "U+A7DB">>, <<"U+A7DC", "U+019B">>, <<"U+A7F5", "U+A7F6">>,
      <<"U+FF21", "U+FF41">>, <<"U+FF22", "U+FF42">>, <<"U+FF23", "U+FF43">>,
      <<"U+FF24", "U+FF44">>, <<"U+FF25", "U+FF45">>, <<"U+FF26", "U+FF46">>,
      <<"U+FF27", "U+FF47">>, <<"U+FF28", "U+FF48">>, <<"U+FF29", "U+FF49">>,
      <<"U+FF2A", "U+FF4A">>, <<"U+FF2B", "U+FF4B">>, <<"U+FF2C", "U+FF4C">>,
      <<"U+FF2D", "U+FF4D">>, <<"U+FF2E", "U+FF4E">>, <<"U+FF2F", "U+FF4F">>,
      <<"U+FF30", "U+FF50">>, <<"U+FF31", "U+FF51">>, <<"U+FF32", "U+FF52">>,
      <<"U+FF33", "U+FF53">>, <<"U+FF34", "U+FF54">>, <<"U+FF35", "U+FF55">>,
      <<"U+FF36", "U+FF56">>, <<"U+FF37", "U+FF57">>, <<"U+FF38", "U+FF58">>,
      <<"U+FF39", "U+FF59">>, <<"U+FF3A", "U+FF5A">>
    }

\* the same as a function of the code unit
LowerCaseOf ==
    [c \in {p[1] : p \in LowerCasePairs} |->
        (CHOOSE p \in LowerCasePairs : p[1] = c)[2]]

\* the lower case of one code unit: a string, of two code units for
\* U+0130 (i and the combining dot above)
toLowerChar(c) ==
    IF c \in Upper
    THEN <<LowerLetters[CHOOSE i \in DOMAIN UpperLetters : UpperLetters[i] = c]>>
    ELSE IF c = "U+0130" THEN <<"i", "U+0307">>
    ELSE IF c \in DOMAIN LowerCaseOf THEN <<LowerCaseOf[c]>>
    ELSE <<c>>

\* the code unit of number n as the model writes the code units outside
\* printable ASCII
CodeUnit(n) ==
    LET HexDigits == <<"0", "1", "2", "3", "4", "5", "6", "7",
                       "8", "9", "A", "B", "C", "D", "E", "F">>
    IN  "U+" \o HexDigits[((n \div 4096) % 16) + 1]
             \o HexDigits[((n \div 256) % 16) + 1]
             \o HexDigits[((n \div 16) % 16) + 1]
             \o HexDigits[(n % 16) + 1]

\* the two halves of a code point above U+FFFF
HighSurrogates == {CodeUnit(n) : n \in \hD800 .. \hDBFF}
LowSurrogates == {CodeUnit(n) : n \in \hDC00 .. \hDFFF}

\* the capitals above U+FFFF: <<high surrogate, first and last low
\* surrogate, distance of the lower case>>
LowerCasePairRanges ==
    {
      <<\hD801, \hDC00, \hDC27, 40>>, <<\hD801, \hDCB0, \hDCD3, 40>>,
      <<\hD801, \hDD70, \hDD7A, 39>>, <<\hD801, \hDD7C, \hDD8A, 39>>,
      <<\hD801, \hDD8C, \hDD92, 39>>, <<\hD801, \hDD94, \hDD95, 39>>,
      <<\hD803, \hDC80, \hDCB2, 64>>, <<\hD803, \hDD50, \hDD65, 32>>,
      <<\hD806, \hDCA0, \hDCBF, 32>>, <<\hD81B, \hDE40, \hDE5F, 32>>,
      <<\hD81B, \hDEA0, \hDEB8, 27>>, <<\hD83A, \hDD00, \hDD21, 34>>
    }

\* the lower case of a surrogate pair, for the pairs that have one
LowerCaseOfPair ==
    LET pairs == UNION {{<< <<CodeUnit(r[1]), CodeUnit(l)>>,
                            <<CodeUnit(r[1]), CodeUnit(l + r[4])>> >> :
                            l \in r[2] .. r[3]} : r \in LowerCasePairRanges}
    IN  [p \in {q[1] : q \in pairs} |-> (CHOOSE q \in pairs : q[1] = p)[2]]

\* Cased and not Case_Ignorable (Unicode 14 character data, the case
\* pairs and marks added since): code units, as ranges outside ASCII
CasedUnits ==
    Upper \cup Lower \cup UNION {{CodeUnit(n) : n \in r[1] .. r[2]} : r \in
    {
      <<\h00AA, \h00AA>>, <<\h00B5, \h00B5>>, <<\h00BA, \h00BA>>, <<\h00C0, \h00D6>>,
      <<\h00D8, \h00F6>>, <<\h00F8, \h01BA>>, <<\h01BC, \h01BF>>, <<\h01C4, \h0293>>,
      <<\h0296, \h02AF>>, <<\h0370, \h0373>>, <<\h0376, \h0377>>, <<\h037B, \h037D>>,
      <<\h037F, \h037F>>, <<\h0386, \h0386>>, <<\h0388, \h038A>>, <<\h038C, \h038C>>,
      <<\h038E, \h03A1>>, <<\h03A3, \h03F5>>, <<\h03F7, \h0481>>, <<\h048A, \h052F>>,
      <<\h0531, \h0556>>, <<\h0560, \h0588>>, <<\h10A0, \h10C5>>, <<\h10C7, \h10C7>>,
      <<\h10CD, \h10CD>>, <<\h10D0, \h10FA>>, <<\h10FD, \h10FF>>, <<\h13A0, \h13F5>>,
      <<\h13F8, \h13FD>>, <<\h1C80, \h1C8A>>, <<\h1C90, \h1CBA>>, <<\h1CBD, \h1CBF>>,
      <<\h1D00, \h1D2B>>, <<\h1D6B, \h1D77>>, <<\h1D79, \h1D9A>>, <<\h1E00, \h1F15>>,
      <<\h1F18, \h1F1D>>, <<\h1F20, \h1F45>>, <<\h1F48, \h1F4D>>, <<\h1F50, \h1F57>>,
      <<\h1F59, \h1F59>>, <<\h1F5B, \h1F5B>>, <<\h1F5D, \h1F5D>>, <<\h1F5F, \h1F7D>>,
      <<\h1F80, \h1FB4>>, <<\h1FB6, \h1FBC>>, <<\h1FBE, \h1FBE>>, <<\h1FC2, \h1FC4>>,
      <<\h1FC6, \h1FCC>>, <<\h1FD0, \h1FD3>>, <<\h1FD6, \h1FDB>>, <<\h1FE0, \h1FEC>>,
      <<\h1FF2, \h1FF4>>, <<\h1FF6, \h1FFC>>, <<\h2102, \h2102>>, <<\h2107, \h2107>>,
      <<\h210A, \h2113>>, <<\h2115, \h2115>>, <<\h2119, \h211D>>, <<\h2124, \h2124>>,
      <<\h2126, \h2126>>, <<\h2128, \h2128>>, <<\h212A, \h212D>>, <<\h212F, \h2134>>,
      <<\h2139, \h2139>>, <<\h213C, \h213F>>, <<\h2145, \h2149>>, <<\h214E, \h214E>>,
      <<\h2160, \h217F>>, <<\h2183, \h2184>>, <<\h24B6, \h24E9>>, <<\h2C00, \h2C7B>>,
      <<\h2C7E, \h2CE4>>, <<\h2CEB, \h2CEE>>, <<\h2CF2, \h2CF3>>, <<\h2D00, \h2D25>>,
      <<\h2D27, \h2D27>>, <<\h2D2D, \h2D2D>>, <<\hA640, \hA66D>>, <<\hA680, \hA69B>>,
      <<\hA722, \hA76F>>, <<\hA771, \hA787>>, <<\hA78B, \hA78E>>, <<\hA790, \hA7DC>>,
      <<\hA7F5, \hA7F6>>, <<\hA7FA, \hA7FA>>, <<\hAB30, \hAB5A>>, <<\hAB60, \hAB68>>,
      <<\hAB70, \hABBF>>, <<\hFB00, \hFB06>>, <<\hFB13, \hFB17>>, <<\hFF21, \hFF3A>>,
      <<\hFF41, \hFF5A>>
    }}

\* the same above U+FFFF: <<high surrogate, first and last low surrogate>>
CasedPairs ==
    UNION {{<<CodeUnit(r[1]), CodeUnit(l)>> : l \in r[2] .. r[3]} : r \in
    {
      <<\hD801, \hDC00, \hDC4F>>, <<\hD801, \hDCB0, \hDCD3>>, <<\hD801, \hDCD8, \hDCFB>>,
      <<\hD801, \hDD70, \hDD7A>>, <<\hD801, \hDD7C, \hDD8A>>, <<\hD801, \hDD8C, \hDD92>>,
      <<\hD801, \hDD94, \hDD95>>, <<\hD801, \hDD97, \hDDA1>>, <<\hD801, \hDDA3, \hDDB1>>,
      <<\hD801, \hDDB3, \hDDB9>>, <<\hD801, \hDDBB, \hDDBC>>, <<\hD803, \hDC80, \hDCB2>>,
      <<\hD803, \hDCC0, \hDCF2>>, <<\hD803, \hDD50, \hDD65>>, <<\hD803, \hDD70, \hDD85>>,
      <<\hD806, \hDCA0, \hDCDF>>, <<\hD81B, \hDE40, \hDE7F>>, <<\hD81B, \hDEA0, \hDEB8>>,
      <<\hD81B, \hDEBB, \hDED3>>, <<\hD835, \hDC00, \hDC54>>, <<\hD835, \hDC56, \hDC9C>>,
      <<\hD835, \hDC9E, \hDC9F>>, <<\hD835, \hDCA2, \hDCA2>>, <<\hD835, \hDCA5, \hDCA6>>,
      <<\hD835, \hDCA9, \hDCAC>>, <<\hD835, \hDCAE, \hDCB9>>, <<\hD835, \hDCBB, \hDCBB>>,
      <<\hD835, \hDCBD, \hDCC3>>, <<\hD835, \hDCC5, \hDD05>>, <<\hD835, \hDD07, \hDD0A>>,
      <<\hD835, \hDD0D, \hDD14>>, <<\hD835, \hDD16, \hDD1C>>, <<\hD835, \hDD1E, \hDD39>>,
      <<\hD835, \hDD3B, \hDD3E>>, <<\hD835, \hDD40, \hDD44>>, <<\hD835, \hDD46, \hDD46>>,
      <<\hD835, \hDD4A, \hDD50>>, <<\hD835, \hDD52, \hDEA5>>, <<\hD835, \hDEA8, \hDEC0>>,
      <<\hD835, \hDEC2, \hDEDA>>, <<\hD835, \hDEDC, \hDEFA>>, <<\hD835, \hDEFC, \hDF14>>,
      <<\hD835, \hDF16, \hDF34>>, <<\hD835, \hDF36, \hDF4E>>, <<\hD835, \hDF50, \hDF6E>>,
      <<\hD835, \hDF70, \hDF88>>, <<\hD835, \hDF8A, \hDFA8>>, <<\hD835, \hDFAA, \hDFC2>>,
      <<\hD835, \hDFC4, \hDFCB>>, <<\hD837, \hDF00, \hDF09>>, <<\hD837, \hDF0B, \hDF1E>>,
      <<\hD837, \hDF25, \hDF2A>>, <<\hD83A, \hDD00, \hDD43>>, <<\hD83C, \hDD30, \hDD49>>,
      <<\hD83C, \hDD50, \hDD69>>, <<\hD83C, \hDD70, \hDD89>>
    }}

\* Case_Ignorable: code units (U+0060 is the grave accent, which a string
\* of this language cannot hold)
CaseIgnorableUnits ==
    {"'", ".", ":", "^", "U+0060"} \cup
    UNION {{CodeUnit(n) : n \in r[1] .. r[2]} : r \in
    {
      <<\h00A8, \h00A8>>, <<\h00AD, \h00AD>>, <<\h00AF, \h00AF>>, <<\h00B4, \h00B4>>,
      <<\h00B7, \h00B8>>, <<\h02B0, \h036F>>, <<\h0374, \h0375>>, <<\h037A, \h037A>>,
      <<\h0384, \h0385>>, <<\h0387, \h0387>>, <<\h0483, \h0489>>, <<\h0559, \h0559>>,
      <<\h055F, \h055F>>, <<\h0591, \h05BD>>, <<\h05BF, \h05BF>>, <<\h05C1, \h05C2>>,
      <<\h05C4, \h05C5>>, <<\h05C7, \h05C7>>, <<\h05F4, \h05F4>>, <<\h0600, \h0605>>,
      <<\h0610, \h061A>>, <<\h061C, \h061C>>, <<\h0640, \h0640>>, <<\h064B, \h065F>>,
      <<\h0670, \h0670>>, <<\h06D6, \h06DD>>, <<\h06DF, \h06E8>>, <<\h06EA, \h06ED>>,
      <<\h070F, \h070F>>, <<\h0711, \h0711>>, <<\h0730, \h074A>>, <<\h07A6, \h07B0>>,
      <<\h07EB, \h07F5>>, <<\h07FA, \h07FA>>, <<\h07FD, \h07FD>>, <<\h0816, \h082D>>,
      <<\h0859, \h085B>>, <<\h0888, \h0888>>, <<\h0890, \h0891>>, <<\h0897, \h089F>>,
      <<\h08C9, \h0902>>, <<\h093A, \h093A>>, <<\h093C, \h093C>>, <<\h0941, \h0948>>,
      <<\h094D, \h094D>>, <<\h0951, \h0957>>, <<\h0962, \h0963>>, <<\h0971, \h0971>>,
      <<\h0981, \h0981>>, <<\h09BC, \h09BC>>, <<\h09C1, \h09C4>>, <<\h09CD, \h09CD>>,
      <<\h09E2, \h09E3>>, <<\h09FE, \h09FE>>, <<\h0A01, \h0A02>>, <<\h0A3C, \h0A3C>>,
      <<\h0A41, \h0A42>>, <<\h0A47, \h0A48>>, <<\h0A4B, \h0A4D>>, <<\h0A51, \h0A51>>,
      <<\h0A70, \h0A71>>, <<\h0A75, \h0A75>>, <<\h0A81, \h0A82>>, <<\h0ABC, \h0ABC>>,
      <<\h0AC1, \h0AC5>>, <<\h0AC7, \h0AC8>>, <<\h0ACD, \h0ACD>>, <<\h0AE2, \h0AE3>>,
      <<\h0AFA, \h0AFF>>, <<\h0B01, \h0B01>>, <<\h0B3C, \h0B3C>>, <<\h0B3F, \h0B3F>>,
      <<\h0B41, \h0B44>>, <<\h0B4D, \h0B4D>>, <<\h0B55, \h0B56>>, <<\h0B62, \h0B63>>,
      <<\h0B82, \h0B82>>, <<\h0BC0, \h0BC0>>, <<\h0BCD, \h0BCD>>, <<\h0C00, \h0C00>>,
      <<\h0C04, \h0C04>>, <<\h0C3C, \h0C3C>>, <<\h0C3E, \h0C40>>, <<\h0C46, \h0C48>>,
      <<\h0C4A, \h0C4D>>, <<\h0C55, \h0C56>>, <<\h0C62, \h0C63>>, <<\h0C81, \h0C81>>,
      <<\h0CBC, \h0CBC>>, <<\h0CBF, \h0CBF>>, <<\h0CC6, \h0CC6>>, <<\h0CCC, \h0CCD>>,
      <<\h0CE2, \h0CE3>>, <<\h0D00, \h0D01>>, <<\h0D3B, \h0D3C>>, <<\h0D41, \h0D44>>,
      <<\h0D4D, \h0D4D>>, <<\h0D62, \h0D63>>, <<\h0D81, \h0D81>>, <<\h0DCA, \h0DCA>>,
      <<\h0DD2, \h0DD4>>, <<\h0DD6, \h0DD6>>, <<\h0E31, \h0E31>>, <<\h0E34, \h0E3A>>,
      <<\h0E46, \h0E4E>>, <<\h0EB1, \h0EB1>>, <<\h0EB4, \h0EBC>>, <<\h0EC6, \h0EC6>>,
      <<\h0EC8, \h0ECE>>, <<\h0F18, \h0F19>>, <<\h0F35, \h0F35>>, <<\h0F37, \h0F37>>,
      <<\h0F39, \h0F39>>, <<\h0F71, \h0F7E>>, <<\h0F80, \h0F84>>, <<\h0F86, \h0F87>>,
      <<\h0F8D, \h0F97>>, <<\h0F99, \h0FBC>>, <<\h0FC6, \h0FC6>>, <<\h102D, \h1030>>,
      <<\h1032, \h1037>>, <<\h1039, \h103A>>, <<\h103D, \h103E>>, <<\h1058, \h1059>>,
      <<\h105E, \h1060>>, <<\h1071, \h1074>>, <<\h1082, \h1082>>, <<\h1085, \h1086>>,
      <<\h108D, \h108D>>, <<\h109D, \h109D>>, <<\h10FC, \h10FC>>, <<\h135D, \h135F>>,
      <<\h1712, \h1714>>, <<\h1732, \h1733>>, <<\h1752, \h1753>>, <<\h1772, \h1773>>,
      <<\h17B4, \h17B5>>, <<\h17B7, \h17BD>>, <<\h17C6, \h17C6>>, <<\h17C9, \h17D3>>,
      <<\h17D7, \h17D7>>, <<\h17DD, \h17DD>>, <<\h180B, \h180F>>, <<\h1843, \h1843>>,
      <<\h1885, \h1886>>, <<\h18A9, \h18A9>>, <<\h1920, \h1922>>, <<\h1927, \h1928>>,
      <<\h1932, \h1932>>, <<\h1939, \h193B>>, <<\h1A17, \h1A18>>, <<\h1A1B, \h1A1B>>,
      <<\h1A56, \h1A56>>, <<\h1A58, \h1A5E>>, <<\h1A60, \h1A60>>, <<\h1A62, \h1A62>>,
      <<\h1A65, \h1A6C>>, <<\h1A73, \h1A7C>>, <<\h1A7F, \h1A7F>>, <<\h1AA7, \h1AA7>>,
      <<\h1AB0, \h1ADD>>, <<\h1AE0, \h1AEB>>, <<\h1B00, \h1B03>>, <<\h1B34, \h1B34>>, <<\h1B36, \h1B3A>>,
      <<\h1B3C, \h1B3C>>, <<\h1B42, \h1B42>>, <<\h1B6B, \h1B73>>, <<\h1B80, \h1B81>>,
      <<\h1BA2, \h1BA5>>, <<\h1BA8, \h1BA9>>, <<\h1BAB, \h1BAD>>, <<\h1BE6, \h1BE6>>,
      <<\h1BE8, \h1BE9>>, <<\h1BED, \h1BED>>, <<\h1BEF, \h1BF1>>, <<\h1C2C, \h1C33>>,
      <<\h1C36, \h1C37>>, <<\h1C78, \h1C7D>>, <<\h1CD0, \h1CD2>>, <<\h1CD4, \h1CE0>>,
      <<\h1CE2, \h1CE8>>, <<\h1CED, \h1CED>>, <<\h1CF4, \h1CF4>>, <<\h1CF8, \h1CF9>>,
      <<\h1D2C, \h1D6A>>, <<\h1D78, \h1D78>>, <<\h1D9B, \h1DFF>>, <<\h1FBD, \h1FBD>>,
      <<\h1FBF, \h1FC1>>, <<\h1FCD, \h1FCF>>, <<\h1FDD, \h1FDF>>, <<\h1FED, \h1FEF>>,
      <<\h1FFD, \h1FFE>>, <<\h200B, \h200F>>, <<\h2018, \h2019>>, <<\h2024, \h2024>>,
      <<\h2027, \h2027>>, <<\h202A, \h202E>>, <<\h2060, \h2064>>, <<\h2066, \h206F>>,
      <<\h2071, \h2071>>, <<\h207F, \h207F>>, <<\h2090, \h209C>>, <<\h20D0, \h20F0>>,
      <<\h2C7C, \h2C7D>>, <<\h2CEF, \h2CF1>>, <<\h2D6F, \h2D6F>>, <<\h2D7F, \h2D7F>>,
      <<\h2DE0, \h2DFF>>, <<\h2E2F, \h2E2F>>, <<\h3005, \h3005>>, <<\h302A, \h302D>>,
      <<\h3031, \h3035>>, <<\h303B, \h303B>>, <<\h3099, \h309E>>, <<\h30FC, \h30FE>>,
      <<\hA015, \hA015>>, <<\hA4F8, \hA4FD>>, <<\hA60C, \hA60C>>, <<\hA66F, \hA672>>,
      <<\hA674, \hA67D>>, <<\hA67F, \hA67F>>, <<\hA69C, \hA69F>>, <<\hA6F0, \hA6F1>>,
      <<\hA700, \hA721>>, <<\hA770, \hA770>>, <<\hA788, \hA78A>>, <<\hA7F1, \hA7F4>>,
      <<\hA7F8, \hA7F9>>, <<\hA802, \hA802>>, <<\hA806, \hA806>>, <<\hA80B, \hA80B>>,
      <<\hA825, \hA826>>, <<\hA82C, \hA82C>>, <<\hA8C4, \hA8C5>>, <<\hA8E0, \hA8F1>>,
      <<\hA8FF, \hA8FF>>, <<\hA926, \hA92D>>, <<\hA947, \hA951>>, <<\hA980, \hA982>>,
      <<\hA9B3, \hA9B3>>, <<\hA9B6, \hA9B9>>, <<\hA9BC, \hA9BD>>, <<\hA9CF, \hA9CF>>,
      <<\hA9E5, \hA9E6>>, <<\hAA29, \hAA2E>>, <<\hAA31, \hAA32>>, <<\hAA35, \hAA36>>,
      <<\hAA43, \hAA43>>, <<\hAA4C, \hAA4C>>, <<\hAA70, \hAA70>>, <<\hAA7C, \hAA7C>>,
      <<\hAAB0, \hAAB0>>, <<\hAAB2, \hAAB4>>, <<\hAAB7, \hAAB8>>, <<\hAABE, \hAABF>>,
      <<\hAAC1, \hAAC1>>, <<\hAADD, \hAADD>>, <<\hAAEC, \hAAED>>, <<\hAAF3, \hAAF4>>,
      <<\hAAF6, \hAAF6>>, <<\hAB5B, \hAB5F>>, <<\hAB69, \hAB6B>>, <<\hABE5, \hABE5>>,
      <<\hABE8, \hABE8>>, <<\hABED, \hABED>>, <<\hFB1E, \hFB1E>>, <<\hFBB2, \hFBC2>>,
      <<\hFE00, \hFE0F>>, <<\hFE13, \hFE13>>, <<\hFE20, \hFE2F>>, <<\hFE52, \hFE52>>,
      <<\hFE55, \hFE55>>, <<\hFEFF, \hFEFF>>, <<\hFF07, \hFF07>>, <<\hFF0E, \hFF0E>>,
      <<\hFF1A, \hFF1A>>, <<\hFF3E, \hFF3E>>, <<\hFF40, \hFF40>>, <<\hFF70, \hFF70>>,
      <<\hFF9E, \hFF9F>>, <<\hFFE3, \hFFE3>>, <<\hFFF9, \hFFFB>>
    }}

\* Case_Ignorable above U+FFFF (Unicode 17 character data)
CaseIgnorablePairs ==
    UNION {{<<CodeUnit(r[1]), CodeUnit(l)>> : l \in r[2] .. r[3]} : r \in
    {
      <<\hD800, \hDDFD, \hDDFD>>, <<\hD800, \hDEE0, \hDEE0>>, <<\hD800, \hDF76, \hDF7A>>,
      <<\hD801, \hDF80, \hDF85>>, <<\hD801, \hDF87, \hDFB0>>, <<\hD801, \hDFB2, \hDFBA>>,
      <<\hD802, \hDE01, \hDE03>>, <<\hD802, \hDE05, \hDE06>>, <<\hD802, \hDE0C, \hDE0F>>,
      <<\hD802, \hDE38, \hDE3A>>, <<\hD802, \hDE3F, \hDE3F>>, <<\hD802, \hDEE5, \hDEE6>>,
      <<\hD803, \hDD24, \hDD27>>, <<\hD803, \hDD4E, \hDD4E>>, <<\hD803, \hDD69, \hDD6D>>,
      <<\hD803, \hDD6F, \hDD6F>>, <<\hD803, \hDEAB, \hDEAC>>, <<\hD803, \hDEC5, \hDEC5>>,
      <<\hD803, \hDEFA, \hDEFF>>, <<\hD803, \hDF46, \hDF50>>, <<\hD803, \hDF82, \hDF85>>,
      <<\hD804, \hDC01, \hDC01>>, <<\hD804, \hDC38, \hDC46>>, <<\hD804, \hDC70, \hDC70>>,
      <<\hD804, \hDC73, \hDC74>>, <<\hD804, \hDC7F, \hDC81>>, <<\hD804, \hDCB3, \hDCB6>>,
      <<\hD804, \hDCB9, \hDCBA>>, <<\hD804, \hDCBD, \hDCBD>>, <<\hD804, \hDCC2, \hDCC2>>,
      <<\hD804, \hDCCD, \hDCCD>>, <<\hD804, \hDD00, \hDD02>>, <<\hD804, \hDD27, \hDD2B>>,
      <<\hD804, \hDD2D, \hDD34>>, <<\hD804, \hDD73, \hDD73>>, <<\hD804, \hDD80, \hDD81>>,
      <<\hD804, \hDDB6, \hDDBE>>, <<\hD804, \hDDC9, \hDDCC>>, <<\hD804, \hDDCF, \hDDCF>>,
      <<\hD804, \hDE2F, \hDE31>>, <<\hD804, \hDE34, \hDE34>>, <<\hD804, \hDE36, \hDE37>>,
      <<\hD804, \hDE3E, \hDE3E>>, <<\hD804, \hDE41, \hDE41>>, <<\hD804, \hDEDF, \hDEDF>>,
      <<\hD804, \hDEE3, \hDEEA>>, <<\hD804, \hDF00, \hDF01>>, <<\hD804, \hDF3B, \hDF3C>>,
      <<\hD804, \hDF40, \hDF40>>, <<\hD804, \hDF66, \hDF6C>>, <<\hD804, \hDF70, \hDF74>>,
      <<\hD804, \hDFBB, \hDFC0>>, <<\hD804, \hDFCE, \hDFCE>>, <<\hD804, \hDFD0, \hDFD0>>,
      <<\hD804, \hDFD2, \hDFD2>>, <<\hD804, \hDFE1, \hDFE2>>, <<\hD805, \hDC38, \hDC3F>>,
      <<\hD805, \hDC42, \hDC44>>, <<\hD805, \hDC46, \hDC46>>, <<\hD805, \hDC5E, \hDC5E>>,
      <<\hD805, \hDCB3, \hDCB8>>, <<\hD805, \hDCBA, \hDCBA>>, <<\hD805, \hDCBF, \hDCC0>>,
      <<\hD805, \hDCC2, \hDCC3>>, <<\hD805, \hDDB2, \hDDB5>>, <<\hD805, \hDDBC, \hDDBD>>,
      <<\hD805, \hDDBF, \hDDC0>>, <<\hD805, \hDDDC, \hDDDD>>, <<\hD805, \hDE33, \hDE3A>>,
      <<\hD805, \hDE3D, \hDE3D>>, <<\hD805, \hDE3F, \hDE40>>, <<\hD805, \hDEAB, \hDEAB>>,
      <<\hD805, \hDEAD, \hDEAD>>, <<\hD805, \hDEB0, \hDEB5>>, <<\hD805, \hDEB7, \hDEB7>>,
      <<\hD805, \hDF1D, \hDF1D>>, <<\hD805, \hDF1F, \hDF1F>>, <<\hD805, \hDF22, \hDF25>>,
      <<\hD805, \hDF27, \hDF2B>>, <<\hD806, \hDC2F, \hDC37>>, <<\hD806, \hDC39, \hDC3A>>,
      <<\hD806, \hDD3B, \hDD3C>>, <<\hD806, \hDD3E, \hDD3E>>, <<\hD806, \hDD43, \hDD43>>,
      <<\hD806, \hDDD4, \hDDD7>>, <<\hD806, \hDDDA, \hDDDB>>, <<\hD806, \hDDE0, \hDDE0>>,
      <<\hD806, \hDE01, \hDE0A>>, <<\hD806, \hDE33, \hDE38>>, <<\hD806, \hDE3B, \hDE3E>>,
      <<\hD806, \hDE47, \hDE47>>, <<\hD806, \hDE51, \hDE56>>, <<\hD806, \hDE59, \hDE5B>>,
      <<\hD806, \hDE8A, \hDE96>>, <<\hD806, \hDE98, \hDE99>>, <<\hD806, \hDF60, \hDF60>>,
      <<\hD806, \hDF62, \hDF64>>, <<\hD806, \hDF66, \hDF66>>, <<\hD807, \hDC30, \hDC36>>,
      <<\hD807, \hDC38, \hDC3D>>, <<\hD807, \hDC3F, \hDC3F>>, <<\hD807, \hDC92, \hDCA7>>,
      <<\hD807, \hDCAA, \hDCB0>>, <<\hD807, \hDCB2, \hDCB3>>, <<\hD807, \hDCB5, \hDCB6>>,
      <<\hD807, \hDD31, \hDD36>>, <<\hD807, \hDD3A, \hDD3A>>, <<\hD807, \hDD3C, \hDD3D>>,
      <<\hD807, \hDD3F, \hDD45>>, <<\hD807, \hDD47, \hDD47>>, <<\hD807, \hDD90, \hDD91>>,
      <<\hD807, \hDD95, \hDD95>>, <<\hD807, \hDD97, \hDD97>>, <<\hD807, \hDDD9, \hDDD9>>,
      <<\hD807, \hDEF3, \hDEF4>>, <<\hD807, \hDF00, \hDF01>>, <<\hD807, \hDF36, \hDF3A>>,
      <<\hD807, \hDF40, \hDF40>>, <<\hD807, \hDF42, \hDF42>>, <<\hD807, \hDF5A, \hDF5A>>,
      <<\hD80D, \hDC30, \hDC40>>, <<\hD80D, \hDC47, \hDC55>>, <<\hD818, \hDD1E, \hDD29>>,
      <<\hD818, \hDD2D, \hDD2F>>, <<\hD81A, \hDEF0, \hDEF4>>, <<\hD81A, \hDF30, \hDF36>>,
      <<\hD81A, \hDF40, \hDF43>>, <<\hD81B, \hDD40, \hDD42>>, <<\hD81B, \hDD6B, \hDD6C>>,
      <<\hD81B, \hDF4F, \hDF4F>>, <<\hD81B, \hDF8F, \hDF9F>>, <<\hD81B, \hDFE0, \hDFE1>>,
      <<\hD81B, \hDFE3, \hDFE4>>, <<\hD81B, \hDFF2, \hDFF3>>, <<\hD82B, \hDFF0, \hDFF3>>,
      <<\hD82B, \hDFF5, \hDFFB>>, <<\hD82B, \hDFFD, \hDFFE>>, <<\hD82F, \hDC9D, \hDC9E>>,
      <<\hD82F, \hDCA0, \hDCA3>>, <<\hD833, \hDF00, \hDF2D>>, <<\hD833, \hDF30, \hDF46>>,
      <<\hD834, \hDD67, \hDD69>>, <<\hD834, \hDD73, \hDD82>>, <<\hD834, \hDD85, \hDD8B>>,
      <<\hD834, \hDDAA, \hDDAD>>, <<\hD834, \hDE42, \hDE44>>, <<\hD836, \hDE00, \hDE36>>,
      <<\hD836, \hDE3B, \hDE6C>>, <<\hD836, \hDE75, \hDE75>>, <<\hD836, \hDE84, \hDE84>>,
      <<\hD836, \hDE9B, \hDE9F>>, <<\hD836, \hDEA1, \hDEAF>>, <<\hD838, \hDC00, \hDC06>>,
      <<\hD838, \hDC08, \hDC18>>, <<\hD838, \hDC1B, \hDC21>>, <<\hD838, \hDC23, \hDC24>>,
      <<\hD838, \hDC26, \hDC2A>>, <<\hD838, \hDC30, \hDC6D>>, <<\hD838, \hDC8F, \hDC8F>>,
      <<\hD838, \hDD30, \hDD3D>>, <<\hD838, \hDEAE, \hDEAE>>, <<\hD838, \hDEEC, \hDEEF>>,
      <<\hD839, \hDCEB, \hDCEF>>, <<\hD839, \hDDEE, \hDDEF>>, <<\hD839, \hDEE3, \hDEE3>>,
      <<\hD839, \hDEE6, \hDEE6>>, <<\hD839, \hDEEE, \hDEEF>>, <<\hD839, \hDEF5, \hDEF5>>,
      <<\hD839, \hDEFF, \hDEFF>>, <<\hD83A, \hDCD0, \hDCD6>>, <<\hD83A, \hDD44, \hDD4B>>,
      <<\hD83C, \hDFFB, \hDFFF>>, <<\hDB40, \hDC01, \hDC01>>, <<\hDB40, \hDC20, \hDC7F>>,
      <<\hDB40, \hDD00, \hDDEF>>
    }}

\* Final_Sigma, before: going back from position j of s over the
\* case-ignorable code points, the first other code point is cased
RECURSIVE precededByCased(_, _)
precededByCased(s, j) ==
    IF j < 1 THEN FALSE
    ELSE IF j >= 2 /\ s[j] \in LowSurrogates /\ s[j - 1] \in HighSurrogates
         THEN IF <<s[j - 1], s[j]>> \in CaseIgnorablePairs
              THEN precededByCased(s, j - 2)
              ELSE <<s[j - 1], s[j]>> \in CasedPairs
         ELSE IF s[j] \in CaseIgnorableUnits
              THEN precededByCased(s, j - 1)
              ELSE s[j] \in CasedUnits

\* Final_Sigma, after: the same going on from position j
RECURSIVE followedByCased(_, _)
followedByCased(s, j) ==
    IF j > Len(s) THEN FALSE
    ELSE IF j < Len(s) /\ s[j] \in HighSurrogates /\ s[j + 1] \in LowSurrogates
         THEN IF <<s[j], s[j + 1]>> \in CaseIgnorablePairs
              THEN followedByCased(s, j + 2)
              ELSE <<s[j], s[j + 1]>> \in CasedPairs
         ELSE IF s[j] \in CaseIgnorableUnits
              THEN followedByCased(s, j + 1)
              ELSE s[j] \in CasedUnits

\* s.toLowerCase() from position i on, code point by code point: U+03A3
\* becomes U+03C2 at the end of a word (Final_Sigma) and U+03C3 elsewhere,
\* a surrogate pair becomes the pair of its lower case, any other code unit
\* its own lower case
RECURSIVE toLowerFrom(_, _)
toLowerFrom(s, i) ==
    IF i > Len(s) THEN <<>>
    ELSE IF s[i] = "U+03A3"
         THEN <<IF precededByCased(s, i - 1) /\ ~followedByCased(s, i + 1)
                THEN "U+03C2" ELSE "U+03C3">> \o toLowerFrom(s, i + 1)
    ELSE IF /\ i < Len(s)
            /\ s[i] \in HighSurrogates
            /\ <<s[i], s[i + 1]>> \in DOMAIN LowerCaseOfPair
         THEN LowerCaseOfPair[<<s[i], s[i + 1]>>] \o toLowerFrom(s, i + 2)
    ELSE toLowerChar(s[i]) \o toLowerFrom(s, i + 1)

\* s.toLowerCase()
toLowerCase(s) == toLowerFrom(s, 1)

\* s.replace(/\s+/g, '-'): every maximal run of whitespace becomes one hyphen
RECURSIVE replaceWhitespaceRuns(_)
replaceWhitespaceRuns(s) ==
    IF s = <<>> THEN <<>>
    ELSE IF Head(s) \in Whitespace
         THEN <<Hyphen>> \o replaceWhitespaceRuns(trimStart(s))
         ELSE <<Head(s)>> \o replaceWhitespaceRuns(Tail(s))

\* s.replace(/[^\w\-]+/g, ''): only word characters and hyphens are kept
removeNonWord(s) == SelectSeq(s, LAMBDA c : c \in WordChar \cup {Hyphen})

RECURSIVE dropLeadingHyphens(_)
dropLeadingHyphens(s) ==
    IF s # <<>> /\ Head(s) = Hyphen THEN dropLeadingHyphens(Tail(s)) ELSE s

RECURSIVE dropTrailingHyphens(_)
dropTrailingHyphens(s) ==
    IF s # <<>> /\ s[Len(s)] = Hyphen
    THEN dropTrailingHyphens(SubSeq(s, 1, Len(s) - 1))
    ELSE s

\* s.replace(/\-\-+/g, '-'): every run of two or more hyphens becomes one
RECURSIVE collapseHyphens(_)
collapseHyphens(s) ==
    IF s = <<>> THEN <<>>
    ELSE IF Head(s) = Hyphen
         THEN <<Hyphen>> \o collapseHyphens(dropLeadingHyphens(s))
         ELSE <<Head(s)>> \o collapseHyphens(Tail(s))

-----------------------------------------------------------------------------
(* lib/utils: slug. *)

\* the replace calls in another order: the leading and trailing hyphens
\* stripped before the non-word characters are removed
slugStripEndsFirst(v) ==
    collapseHyphens(removeNonWord(
        dropTrailingHyphens(dropLeadingHyphens(
            replaceWhitespaceRuns(toLowerCase(trim(v)))))))

\* without the /\-\-+/g replace
slugNoCollapse(v) ==
    dropTrailingHyphens(dropLeadingHyphens(
        removeNonWord(replaceWhitespaceRuns(toLowerCase(trim(v))))))

\* without toLowerCase
slugNoLower(v) ==
    dropTrailingHyphens(dropLeadingHyphens(
        collapseHyphens(removeNonWord(replaceWhitespaceRuns(trim(v))))))

\* the whitespace runs removed instead of replaced by a hyphen
slugWhitespaceRemoved(v) ==
    dropTrailingHyphens(dropLeadingHyphens(
        collapseHyphens(removeNonWord(
            SelectSeq(toLowerCase(trim(v)), LAMBDA c : c \notin Whitespace)))))

slug(v) ==
    dropTrailingHyphens(dropLeadingHyphens(
        collapseHyphens(removeNonWord(
            replaceWhitespaceRuns(toLowerCase(trim(v)))))))

-----------------------------------------------------------------------------
(* Posts and dates. *)

\* new Date(NaN).getTime(): the time value of a date that failed to parse.
\* A comparison (<, <=) with it is false.
NaN == -1

\* the date values of posts: the instants 0 .. MaxDate, and one value that
\* dayjs cannot parse
DateValues == 0 .. MaxDate \cup {NaN}

\* the placeholder of a missing title or author
Unknown == <<"U", "n", "k", "n", "o", "w", "n">>

\* a Post (contracts) with the given title and date
PostOf(title, date) ==
    [title |-> title, author |-> Unknown, tags |-> <<>>, date |-> date,
     description |-> <<>>, serialized |-> <<>>]

\* dayjs(date).valueOf(): the time value of the date, NaN when invalid
dayjs(date) == IF date \in Nat THEN date ELSE NaN

\* a.isSame(b): a.startOf() <= b && b <= a.endOf(), in milliseconds
isSame(a, b) == a # NaN /\ b # NaN /\ a <= b /\ b <= a

\* a.isAfter(b): b < a.startOf()
isAfter(a, b) == a # NaN /\ b # NaN /\ b < a

-----------------------------------------------------------------------------
(* lib/utils: orderPostsByDate. *)

\* the two results of the conditional swapped: ascending order
orderPostsByDateAscending(a, b) ==
    LET firstDate == dayjs(a.date)
        secondDate == dayjs(b.date)
    IN  IF isSame(firstDate, secondDate) THEN 0
        ELSE IF isAfter(firstDate, secondDate) THEN 1 ELSE -1

orderPostsByDate(a, b) ==
    LET firstDate == dayjs(a.date)
        secondDate == dayjs(b.date)
    IN  IF isSame(firstDate, secondDate) THEN 0
        ELSE IF isAfter(firstDate, secondDate) THEN -1 ELSE 1

-----------------------------------------------------------------------------
(* The orderPostsByDate calls. *)

TitleA == <<"A">>
TitleB == <<"B">>

InitOrder ==
    /\ first \in {PostOf(t, d) : t \in {TitleA, TitleB}, d \in DateValues}
    /\ second \in {PostOf(t, d) : t \in {TitleA, TitleB}, d \in DateValues}
    /\ orderOut = <<>>
    /\ IdleSlug /\ IdleVersion /\ IdleDisk /\ IdleLoad /\ IdlePages

OrderCall ==
    /\ orderOut = <<>>
    /\ orderOut' = <<orderPostsByDate(first, second)>>
    /\ UNCHANGED <<first, second, slugVars, fileVars, loadVars, pageVars>>

\* the same call with the two arguments exchanged, as sort may make it
OrderCallSwapped ==
    /\ Len(orderOut) = 1
    /\ orderOut' = Append(orderOut, orderPostsByDate(second, first))
    /\ UNCHANGED <<first, second, slugVars, fileVars, loadVars, pageVars>>

NextOrder == OrderCall \/ OrderCallSwapped

SpecOrder == InitOrder /\ [][NextOrder]_vars

-----------------------------------------------------------------------------
(* Array.prototype.sort(comparefn), as the engine that runs the build      *)
(* (Node, V8) sorts an array of fewer than 64 elements: the leading run is *)
(* found and, when strictly descending, reversed; the remaining elements   *)
(* are inserted by binary search. With a consistent comparefn this is the  *)
(* stable sort ECMAScript requires; with an inconsistent one the order is  *)
(* implementation-defined, and this is the order V8 produces.              *)

Reverse(a) == [i \in DOMAIN a |-> a[Len(a) + 1 - i]]

\* In the helpers, order[x, y] is the number comparefn(x, y) returns.

\* the last index of the run that starts at 1, idx being the next candidate
RECURSIVE runEnd(_, _, _, _)
runEnd(a, idx, isDescending, order) ==
    IF idx > Len(a) THEN Len(a)
    ELSE IF \/ isDescending /\ order[a[idx], a[idx - 1]] >= 0
            \/ ~isDescending /\ order[a[idx], a[idx - 1]] < 0
         THEN idx - 1
         ELSE runEnd(a, idx + 1, isDescending, order)

\* the place of pivot among a[left .. right - 1]
RECURSIVE insertionPoint(_, _, _, _, _)
insertionPoint(a, pivot, left, right, order) ==
    IF left >= right THEN left
    ELSE LET mid == left + ((right - left) \div 2)
         IN  IF order[pivot, a[mid]] < 0
             THEN insertionPoint(a, pivot, left, mid, order)
             ELSE insertionPoint(a, pivot, mid + 1, right, order)

\* a[1 .. start - 1] is in order; the elements from start on are inserted
RECURSIVE binaryInsertionSort(_, _, _)
binaryInsertionSort(a, start, order) ==
    IF start > Len(a) THEN a
    ELSE LET pivot == a[start]
             left == insertionPoint(a, pivot, 1, start, order)
             moved == SubSeq(a, 1, left - 1) \o <<pivot>>
                        \o SubSeq(a, left, start - 1)
                        \o SubSeq(a, start + 1, Len(a))
         IN  binaryInsertionSort(moved, start + 1, order)

\* a.sort(comparefn): order is the table of the numbers comparefn returns
sort(a, order) ==
    IF Len(a) < 2 THEN a
    ELSE LET isDescending == order[a[2], a[1]] < 0
             runLength == runEnd(a, 3, isDescending, order)
             run == SubSeq(a, 1, runLength)
             made == (IF isDescending THEN Reverse(run) ELSE run)
                        \o SubSeq(a, runLength + 1, Len(a))
         IN  binaryInsertionSort(made, runLength + 1, order)

-----------------------------------------------------------------------------
(* Files of the posts directory, as gray-matter splits them: the           *)
(* front-matter (data, a record of the fields the file gives) and the body *)
(* (content).                                                              *)

\* data.key ?? fallback
Nullish(data, key, fallback) ==
    IF key \in DOMAIN data THEN data[key] ELSE fallback

Min(a, b) == IF a <= b THEN a ELSE b

\* s.slice(0, n)
slice(s, n) == SubSeq(s, 1, Min(n, Len(s)))

\* how many '#' a line begins with
RECURSIVE leadingMarks(_)
leadingMarks(line) ==
    IF line # <<>> /\ Head(line) = "#" THEN 1 + leadingMarks(Tail(line)) ELSE 0

\* the text of an ATX heading line, one to six '#' and then a space or the
\* end of the line; any other line is its own text
headingText(line) ==
    LET marks == leadingMarks(line)
    IN  IF marks \in 1 .. 6 /\ (Len(line) = marks \/ line[marks + 1] = " ")
        THEN SubSeq(line, marks + 2, Len(line))
        ELSE line

\* the text of a line that is one emphasised run, '*' + text + '*' with no
\* white space inside the marks; any other line is its own text
emphasisText(line) ==
    IF /\ Len(line) >= 3
       /\ line[1] = "*" /\ line[Len(line)] = "*"
       /\ \A i \in 2 .. Len(line) - 1 : line[i] # "*"
       /\ line[2] \notin Whitespace /\ line[Len(line) - 1] \notin Whitespace
    THEN SubSeq(line, 2, Len(line) - 1)
    ELSE line

\* markdownToTxt(content) of the markdown-to-txt package, for a body of one
\* line that is plain text, an ATX heading or an emphasised run: the text
\* without the heading mark and the emphasis marks. A '#' that no space
\* follows and a '*' without its pair are text and stay.
markdownToTxt(content) == trim(emphasisText(trim(headingText(content))))

\* serialize(content): the compiled body
serialize(content) == [compiledSource |-> content]

\* the character budget of a derived description
DescriptionBudget == 200

\* markdownToTxt(content).slice(0, 200)
derivedDescription(content) ==
    slice(markdownToTxt(content), DescriptionBudget)

\* the two versions of lib/posts
VersionMarkdownToTxt == "markdownToTxt"
VersionFrontMatter == "frontMatter"
Versions == {VersionMarkdownToTxt, VersionFrontMatter}

\* a missing title defaulted to the name of the file
postOfFileTitleFromName(v, file, now) ==
    [title |-> Nullish(file.data, "title", file.name),
     author |-> Nullish(file.data, "author", Unknown),
     tags |-> Nullish(file.data, "tags", <<>>),
     date |-> Nullish(file.data, "date", now),
     description |->
        IF v = VersionMarkdownToTxt
        THEN derivedDescription(file.content)
        ELSE Nullish(file.data, "description", <<>>),
     serialized |-> serialize(file.content)]

\* the tags defaulted like the title and the author: data.tags ?? 'Unknown'
postOfFileTagsUnknown(v, file, now) ==
    [title |-> Nullish(file.data, "title", Unknown),
     author |-> Nullish(file.data, "author", Unknown),
     tags |-> Nullish(file.data, "tags", Unknown),
     date |-> Nullish(file.data, "date", now),
     description |->
        IF v = VersionMarkdownToTxt
        THEN derivedDescription(file.content)
        ELSE Nullish(file.data, "description", <<>>),
     serialized |-> serialize(file.content)]

\* the Post the per-file callback of getPosts returns
postOfFile(v, file, now) ==
    [title |-> Nullish(file.data, "title", Unknown),
     author |-> Nullish(file.data, "author", Unknown),
     tags |-> Nullish(file.data, "tags", <<>>),
     date |-> Nullish(file.data, "date", now),
     description |->
        IF v = VersionMarkdownToTxt
        THEN derivedDescription(file.content)
        ELSE Nullish(file.data, "description", <<>>),
     serialized |-> serialize(file.content)]

-----------------------------------------------------------------------------
(* The front-matters and bodies of the files the per-file callback of      *)
(* getPosts is followed on.                                                *)

\* n characters of plain text
PlainText(n) == [i \in 1 .. n |-> LowerLetters[((i - 1) % 26) + 1]]

\* bodies of n plain characters: bare, under a heading mark, emphasised
Bodies(n) ==
    IF n = 0 THEN {<<>>}
    ELSE {PlainText(n), <<"#", " ">> \o PlainText(n),
          <<"*">> \o PlainText(n) \o <<"*">>}

BodyLengths ==
    {0, 1, DescriptionBudget - 1, DescriptionBudget, DescriptionBudget + 1,
     DescriptionBudget + MaxExtra}

ShortDescription == <<"d", "e", "s", "c">>

TagsA == << <<"g", "o">>, <<"t", "s">> >>

FrontMatters ==
    {[title |-> TitleA, date |-> 1],
     [date |-> 1],
     [title |-> TitleA, date |-> 1, description |-> ShortDescription],
     [title |-> TitleA, date |-> 1, description |-> <<>>],
     [description |-> ShortDescription],
     [title |-> TitleB, author |-> <<"E">>, tags |-> TagsA, date |-> 2,
      description |-> ShortDescription]}

-----------------------------------------------------------------------------
(* lib/posts: getPosts. The call awaits readdir, starts one async callback *)
(* per listed file (each awaits readFile, splits the text with matter,     *)
(* builds the Post and awaits serialize) and awaits Promise.all of them.   *)
(* The jobs a settled promise queues run before the next I/O completion,   *)
(* so each completion below runs to the end of what it triggers.           *)

\* Promise.all collecting the values as the callbacks fulfil
PromiseAllValuesAsSettled(tasks, order) ==
    [k \in DOMAIN order |-> tasks[order[k]].post[1]]

\* the value of Promise.all: the callbacks' Posts, in the order of the array
\* of promises, whatever the order they fulfilled in
PromiseAllValues(tasks, order) ==
    [i \in DOMAIN tasks |-> tasks[i].post[1]]

\* a join that fulfils when a callback's fulfilment completes the count: with
\* no callback it never settles
PromiseAllStateCounting(tasks) ==
    IF \E i \in DOMAIN tasks : tasks[i].state = "rejected" THEN "rejected"
    ELSE IF tasks # <<>> /\ \A i \in DOMAIN tasks : tasks[i].state = "fulfilled"
         THEN "fulfilled"
         ELSE "all"

\* the state of Promise.all: rejected once a callback has rejected,
\* fulfilled once all have fulfilled, pending (all) otherwise
PromiseAllState(tasks) ==
    IF \E i \in DOMAIN tasks : tasks[i].state = "rejected" THEN "rejected"
    ELSE IF \A i \in DOMAIN tasks : tasks[i].state = "fulfilled"
         THEN "fulfilled"
         ELSE "all"

\* a join that waits for every callback to settle and returns the Posts
\* of those that fulfilled
AwaitAllSettled(tasks, order) ==
    LET done == SelectSeq(order, LAMBDA i : tasks[i].state = "fulfilled")
    IN  IF \A i \in DOMAIN tasks : tasks[i].state \in {"fulfilled", "rejected"}
        THEN [pc |-> "fulfilled",
              returned |-> <<[k \in DOMAIN done |-> tasks[done[k]].post[1]]>>]
        ELSE [pc |-> "all", returned |-> <<>>]

\* what `return await Promise.all(...)` makes of the callbacks' states: the
\* position of getPosts and what it has returned
AwaitAll(tasks, order) ==
    [pc |-> PromiseAllState(tasks),
     returned |->
        IF PromiseAllState(tasks) = "fulfilled"
        THEN <<PromiseAllValues(tasks, order)>>
        ELSE <<>>]

\* a getPosts that keeps the list of its first successful call
GetPostsCallCached ==
    /\ pc = "idle"
    /\ IF previous # <<>>
       THEN pc' = "fulfilled" /\ returned' = previous
       ELSE pc' = "readdir" /\ UNCHANGED returned
    /\ UNCHANGED <<disk, files, task, settled, reads>>
    /\ calls' = calls + 1
    /\ UNCHANGED previous
    /\ UNCHANGED <<version, clock, slugVars, orderVars, pageVars>>

GetPostsCall ==
    /\ pc = "idle"
    /\ pc' = "readdir"
    /\ UNCHANGED <<disk, files, task, settled, reads, returned>>
    /\ calls' = calls + 1
    /\ UNCHANGED previous
    /\ UNCHANGED <<version, clock, slugVars, orderVars, pageVars>>

\* readdir("posts") settles: the call fails on a missing directory, and
\* otherwise starts the callbacks, each calling readFile at once
ReaddirDone ==
    /\ pc = "readdir"
    /\ IF disk.missing
       THEN /\ pc' = "rejected"
            /\ UNCHANGED <<files, task, reads, returned>>
       ELSE LET names == [i \in DOMAIN disk.entries |-> disk.entries[i].name]
                started == [i \in DOMAIN names |->
                               [state |-> "readFile", post |-> <<>>]]
            IN  /\ files' = names
                /\ task' = started
                /\ reads' = [i \in DOMAIN names |-> i]
                /\ pc' = AwaitAll(started, <<>>).pc
                /\ returned' = AwaitAll(started, <<>>).returned
    /\ UNCHANGED <<disk, settled, callVars>>
    /\ UNCHANGED <<version, clock, slugVars, orderVars, pageVars>>

\* readFile of the i-th file settles: an unreadable file or a front-matter
\* matter cannot parse rejects the callback; otherwise the fields of the
\* Post are evaluated (new Date() when the file gives no date) and
\* serialize is called
ReadFileDone(i) ==
    /\ i \in DOMAIN task
    /\ task[i].state = "readFile"
    /\ LET file == disk.entries[i]
       IN  IF ~file.readable \/ ~file.wellFormed
           THEN /\ task' = [task EXCEPT ![i].state = "rejected"]
                /\ UNCHANGED clock
           ELSE \E now \in clock .. MaxClock :
                /\ "date" \in DOMAIN file.data => now = clock
                /\ clock' = now
                /\ task' = [task EXCEPT ![i] =
                              [state |-> "serialize",
                               post |-> <<postOfFile(version, file, now)>>]]
    /\ IF pc = "all"
       THEN /\ pc' = AwaitAll(task', settled).pc
            /\ returned' = AwaitAll(task', settled).returned
       ELSE UNCHANGED <<pc, returned>>
    /\ UNCHANGED <<disk, files, settled, reads, callVars>>
    /\ UNCHANGED <<version, slugVars, orderVars, pageVars>>

\* serialize of the i-th body settles: a body that does not compile rejects
\* the callback, otherwise the callback fulfils with its Post
SerializeDone(i) ==
    /\ i \in DOMAIN task
    /\ task[i].state = "serialize"
    /\ IF disk.entries[i].compiles
       THEN /\ task' = [task EXCEPT ![i].state = "fulfilled"]
            /\ settled' = Append(settled, i)
       ELSE /\ task' = [task EXCEPT ![i].state = "rejected"]
            /\ UNCHANGED settled
    /\ IF pc = "all"
       THEN /\ pc' = AwaitAll(task', settled').pc
            /\ returned' = AwaitAll(task', settled').returned
       ELSE UNCHANGED <<pc, returned>>
    /\ UNCHANGED <<disk, files, reads, callVars>>
    /\ UNCHANGED <<version, clock, slugVars, orderVars, pageVars>>

-----------------------------------------------------------------------------
(* The posts directories of the loads. *)

\* a file of the posts directory
File(name, readable, wellFormed, compiles, data, content) ==
    [name |-> name, readable |-> readable, wellFormed |-> wellFormed,
     compiles |-> compiles, data |-> data, content |-> content]

\* three files that load, and one file for each way a callback fails: an
\* unreadable file, a front-matter matter cannot parse, a body serialize
\* cannot compile
LoadFiles ==
    {File("1-a.md", TRUE, TRUE, TRUE,
          [title |-> TitleA, author |-> <<"E">>, tags |-> TagsA, date |-> 1,
           description |-> ShortDescription],
          <<"#", " ">> \o PlainText(3)),
     File("2-b.md", TRUE, TRUE, TRUE, [title |-> TitleB], PlainText(2)),
     File("3-c.md", TRUE, TRUE, TRUE, [date |-> 0], PlainText(1)),
     File("4-d.md", FALSE, TRUE, TRUE, <<>>, <<>>),
     File("5-e.md", TRUE, FALSE, TRUE, <<>>, <<>>),
     File("6-f.md", TRUE, TRUE, FALSE, [title |-> <<"F">>], <<"<">>)}

\* the sequences of at most n different files of a set
RECURSIVE Listings(_, _)
Listings(fileSet, n) ==
    IF n = 0 THEN {<<>>}
    ELSE LET shorter == Listings(fileSet, n - 1)
         IN  shorter \cup
             UNION {{Append(l, f) : f \in fileSet \ Range(l)} : l \in shorter}

Init ==
    /\ version \in Versions
    /\ clock = 0
    /\ disk \in {[missing |-> TRUE, entries |-> <<>>]} \cup
                {[missing |-> FALSE, entries |-> l] :
                    l \in Listings(LoadFiles, MaxFiles)}
    /\ pc = "idle"
    /\ files = <<>>
    /\ task = <<>>
    /\ settled = <<>>
    /\ reads = <<>>
    /\ returned = <<>>
    /\ calls = 0
    /\ previous = <<>>
    /\ IdleSlug /\ IdleOrder /\ IdlePages

Next ==
    \/ GetPostsCall
    \/ ReaddirDone
    \/ \E i \in 1 .. MaxFiles : ReadFileDone(i)
    \/ \E i \in 1 .. MaxFiles : SerializeDone(i)

Spec == Init /\ [][Next]_vars

\* a directory of one file that loads, for every front-matter and body of
\* the per-file callback
FileDirectories ==
    {[missing |-> FALSE,
      entries |-> <<File("1-a.md", TRUE, TRUE, TRUE, d, c)>>] :
        d \in FrontMatters, c \in UNION {Bodies(n) : n \in BodyLengths}}

InitFile ==
    /\ version \in Versions
    /\ clock = 0
    /\ disk \in FileDirectories
    /\ IdleLoad
    /\ IdleSlug /\ IdleOrder /\ IdlePages

NextFile ==
    \/ GetPostsCall
    \/ ReaddirDone
    \/ ReadFileDone(1)
    \/ SerializeDone(1)

SpecFile == InitFile /\ [][NextFile]_vars

-----------------------------------------------------------------------------
(* Successive getPosts calls of one process (getStaticPaths, then          *)
(* getStaticProps of every page), with the directory rewritten between     *)
(* two calls.                                                              *)

\* the most getPosts calls of the process
MaxCalls == 2

\* the most files the directory holds between the calls
MaxListed == 2

\* two files that load and one that cannot be read
ReloadFiles ==
    {f \in LoadFiles : f.name \in {"1-a.md", "2-b.md", "4-d.md"}}

ReloadDirectories ==
    {[missing |-> TRUE, entries |-> <<>>]} \cup
    {[missing |-> FALSE, entries |-> l] : l \in Listings(ReloadFiles, MaxListed)}

\* a call is over and its frame is gone; the directory is rewritten (or
\* left as it is) before the next call
DirectoryChange ==
    /\ pc \in {"fulfilled", "rejected"}
    /\ calls < MaxCalls
    /\ disk' \in ReloadDirectories
    /\ previous' = returned
    /\ pc' = "idle"
    /\ files' = <<>>
    /\ task' = <<>>
    /\ settled' = <<>>
    /\ reads' = <<>>
    /\ returned' = <<>>
    /\ UNCHANGED calls
    /\ UNCHANGED <<version, clock, slugVars, orderVars, pageVars>>

InitReload ==
    /\ version \in Versions
    /\ clock = 0
    /\ disk \in ReloadDirectories
    /\ IdleLoad
    /\ IdleSlug /\ IdleOrder /\ IdlePages

NextReload ==
    \/ GetPostsCall
    \/ ReaddirDone
    \/ \E i \in 1 .. MaxListed : ReadFileDone(i)
    \/ \E i \in 1 .. MaxListed : SerializeDone(i)
    \/ DirectoryChange

SpecReload == InitReload /\ [][NextReload]_vars

-----------------------------------------------------------------------------
(* The data functions of the pages. Each is an async function that awaits *)
(* getPosts: a call returns to the event loop and settles later, so the    *)
(* calls of several data functions overlap and a call that rejects leaves  *)
(* the others running. A data function takes two steps, the call and the   *)
(* settling. What the environment decides while the call is pending (the   *)
(* instant each file is read at, a listed file removed before it is read)  *)
(* is chosen in the settling step. new Date() reads the wall clock, which  *)
(* the system may set at any time: the instants of one call are not        *)
(* ordered with those of another.                                          *)

\* the files that give no date
UndatedContents ==
    {[data |-> [title |-> <<"!">>], content |-> PlainText(4)],
     [data |-> [description |-> ShortDescription], content |-> PlainText(6)]}

\* the axis of the dates: the instants are 0 .. LastInstant and the two
\* dates the front-matters give lie on it with as many instants before,
\* between and after them as a directory has files without a date, so that
\* these files can be read at different instants in each of the places
EarlyDate == Cardinality(UndatedContents)
LateDate == 2 * EarlyDate + 1
LastInstant == 3 * EarlyDate + 1

\* the instants the readFile of a file can complete at from the instant
\* `from` on, where its callback evaluates data.date ?? new Date(): any (a
\* file that gives its date reads no clock)
ReadInstants(file, from) ==
    IF "date" \in DOMAIN file.data THEN {from} ELSE from .. LastInstant

\* whether a listed file can be gone when readFile opens it
Losses(entries) == IF entries = <<>> THEN {FALSE} ELSE BOOLEAN

\* Promise.all(files.map(callback)) when every callback fulfils: the lists
\* of one Post per file, in listing order, each Post with the new Date()
\* of its own callback
RECURSIVE PromiseAllPosts(_, _, _)
PromiseAllPosts(v, entries, from) ==
    IF entries = <<>> THEN {<<>>}
    ELSE LET posts == {postOfFile(v, Head(entries), now) :
                          now \in ReadInstants(Head(entries), from)}
             rest == PromiseAllPosts(v, Tail(entries), from)
         IN  {<<post>> \o others : post \in posts, others \in rest}

\* what a getPosts call made at the instant `from` can settle with: it
\* rejects on a missing directory, on a file that is gone when it is
\* opened or cannot be read, on a front-matter that does not parse and on
\* a body that does not compile, and otherwise fulfils with the Posts
getPosts(v, dir, from) ==
    IF \/ dir.missing
       \/ \E i \in DOMAIN dir.entries :
             \/ ~dir.entries[i].readable
             \/ ~dir.entries[i].wellFormed
             \/ ~dir.entries[i].compiles
    THEN {[pc |-> "rejected", returned |-> <<>>]}
    ELSE {IF lost THEN [pc |-> "rejected", returned |-> <<>>]
          ELSE [pc |-> "fulfilled", returned |-> <<posts>>] :
             posts \in PromiseAllPosts(v, dir.entries, from),
             lost \in Losses(dir.entries)}

\* the two versions of pages/post/[slug].tsx
PostPageSlugOfPost == "slug(post)"
PostPageSlugOfTitle == "slug(post.title)"
PostPages == {PostPageSlugOfPost, PostPageSlugOfTitle}

\* the slug param getStaticPaths gives a post: slug(post.title), and in
\* the earlier page slug(post), which slugs the Post object's toString()
routeSlug(page, post) ==
    IF page = PostPageSlugOfPost THEN slug(ObjectToString)
    ELSE slug(post.title)

\* front-matters and bodies of the posts: titles that slug alike (A, a), a
\* title with no word character and no date, two posts of the same date,
\* one date that does not parse, a file that leaves title and date out
PageContents ==
    UndatedContents \cup
    {[data |-> [title |-> TitleA, date |-> LateDate], content |-> PlainText(1)],
     [data |-> [title |-> <<"a">>, date |-> EarlyDate], content |-> PlainText(2)],
     [data |-> [title |-> TitleB, date |-> EarlyDate], content |-> PlainText(3)],
     [data |-> [title |-> <<"C", " ", "d">>, date |-> NaN],
      content |-> PlainText(5)]}

MdExtension == <<".", "m", "d">>

\* file names: with a numeric index, with a two-digit index and the rest
\* of the first name, without an index, with two indices
FileNames ==
    << <<"1", "-", "a">> \o MdExtension,
       <<"2", "-", "b">> \o MdExtension,
       <<"1", "0", "-", "a">> \o MdExtension,
       <<"c">> \o MdExtension,
       <<"4", "-", "5", "-", "d">> \o MdExtension,
       <<"6", "-", "e">> \o MdExtension >>

\* other names for the same files
OtherFileNames ==
    << <<"7", "-", "z">> \o MdExtension,
       <<"y">> \o MdExtension,
       <<"8", "-", "x">> \o MdExtension,
       <<"9", "-", "w">> \o MdExtension,
       <<"v">> \o MdExtension,
       <<"u">> \o MdExtension >>

\* the directory with every file under another name
Renamed(entries) ==
    [i \in DOMAIN entries |-> [entries[i] EXCEPT !.name = OtherFileNames[i]]]

RECURSIVE SeqsUpTo(_, _)
SeqsUpTo(set, n) ==
    IF n = 0 THEN {<<>>}
    ELSE LET shorter == SeqsUpTo(set, n - 1)
         IN  shorter \cup {Append(q, x) : q \in shorter, x \in set}

\* the posts directories of up to n files, every file of its own contents
Directories(contents, n) ==
    {[i \in DOMAIN q |->
        File(FileNames[i], TRUE, TRUE, TRUE, q[i].data, q[i].content)] :
     q \in Listings(contents, n)}

\* the directories the listings are built from
PageDirectories == Directories(PageContents, MaxPosts)

\* the contents the routes are generated from: the two titles that slug
\* alike, the title with no word character and no date, a file that
\* leaves the title out
BuildContents ==
    {c \in PageContents :
        "title" \in DOMAIN c.data /\ c.data.title \in {TitleA, <<"a">>, <<"!">>}}
    \cup {[data |-> [description |-> ShortDescription, date |-> EarlyDate],
           content |-> PlainText(6)]}

\* the most files the directory holds when the data functions of both
\* pages run on it together
MaxBuilt == 2

\* the directories the data functions of both pages are run on together
BuildDirectories == Directories(BuildContents, MaxBuilt)

\* the parts of the state the data functions of the Next.js pages leave
\* alone
buildVars ==
    <<version, clock, disk, postPage, astroPaths, feed, homeVars, viewVars,
      slugVars, orderVars,
      pc, files, task, settled, reads, returned, callVars>>

InitPages ==
    /\ version \in Versions
    /\ clock = 0
    /\ disk \in {[missing |-> FALSE, entries |-> l] : l \in BuildDirectories}
    /\ postPage \in PostPages
    /\ indexProps = <<>>
    /\ paths = <<>>
    /\ IdleRoutes /\ IdleHome /\ IdleViews
    /\ IdleSlug /\ IdleOrder /\ IdleLoad

\* pages/index: what a getStaticProps call made at the instant `from` can
\* settle with: it rejects when getPosts rejects and otherwise returns the
\* posts sorted with orderPostsByDate
IndexSettlements(v, dir, from) ==
    {IF load.pc = "rejected" THEN load
     ELSE LET posts == load.returned[1]
              comparefn == [a \in Range(posts), b \in Range(posts) |->
                               orderPostsByDate(a, b)]
          IN  [pc |-> "fulfilled", returned |-> <<sort(posts, comparefn)>>] :
        load \in getPosts(v, dir, from)}

\* pages/index: getStaticProps is called, calls getPosts and awaits it
IndexGetStaticPropsCall ==
    /\ indexProps = <<>>
    /\ "index getStaticProps" \notin pending \cup rejected
    /\ pending' = pending \cup {"index getStaticProps"}
    /\ UNCHANGED <<indexProps, paths, context, postProps, rejected>>
    /\ UNCHANGED buildVars

\* pages/index: getPosts settles and getStaticProps with it, rejecting or
\* returning the posts sorted with orderPostsByDate
IndexGetStaticPropsReturn ==
    /\ "index getStaticProps" \in pending
    /\ pending' = pending \ {"index getStaticProps"}
    /\ \E call \in IndexSettlements(version, disk, clock) :
          IF call.pc = "rejected"
          THEN /\ rejected' = rejected \cup {"index getStaticProps"}
               /\ UNCHANGED indexProps
          ELSE /\ indexProps' = call.returned
               /\ UNCHANGED rejected
    /\ UNCHANGED <<paths, context, postProps>>
    /\ UNCHANGED buildVars

\* pages/index: getStaticProps
IndexGetStaticProps == IndexGetStaticPropsCall \/ IndexGetStaticPropsReturn

\* pages/post/[slug]: what a getStaticPaths call can settle with: it
\* rejects when getPosts rejects and otherwise returns one path per post,
\* in order, and fallback: false
PathsSettlements(page, v, dir, from) ==
    {IF load.pc = "rejected" THEN load
     ELSE LET posts == load.returned[1]
          IN  [pc |-> "fulfilled",
               returned |->
                  <<[paths |-> [i \in DOMAIN posts |->
                                  routeSlug(page, posts[i])],
                     fallback |-> FALSE]>>] :
        load \in getPosts(v, dir, from)}

\* pages/post/[slug]: getStaticPaths is called, calls getPosts and awaits it
PostGetStaticPathsCall ==
    /\ paths = <<>>
    /\ "post getStaticPaths" \notin pending \cup rejected
    /\ pending' = pending \cup {"post getStaticPaths"}
    /\ UNCHANGED <<indexProps, paths, context, postProps, rejected>>
    /\ UNCHANGED buildVars

\* pages/post/[slug]: getPosts settles and getStaticPaths with it,
\* rejecting or returning one path per post, in order, and fallback: false
PostGetStaticPathsReturn ==
    /\ "post getStaticPaths" \in pending
    /\ pending' = pending \ {"post getStaticPaths"}
    /\ \E call \in PathsSettlements(postPage, version, disk, clock) :
          IF call.pc = "rejected"
          THEN /\ rejected' = rejected \cup {"post getStaticPaths"}
               /\ UNCHANGED paths
          ELSE /\ paths' = call.returned
               /\ UNCHANGED rejected
    /\ UNCHANGED <<indexProps, context, postProps>>
    /\ UNCHANGED buildVars

\* pages/post/[slug]: getStaticPaths
PostGetStaticPaths == PostGetStaticPathsCall \/ PostGetStaticPathsReturn

PostPrefix == <<"/", "p", "o", "s", "t", "/">>

\* SmallHeader: the link of a post on the index page,
\* `/post/${slug(post.title)}`
postHref(post) == PostPrefix \o slug(post.title)

\* posts.find with the last match taken instead of the first
postOfSlugLast(page, posts, param) ==
    LET hits == {i \in DOMAIN posts : routeSlug(page, posts[i]) = param}
    IN  IF hits = {} THEN [notFound |-> TRUE]
        ELSE [props |->
                [post |-> posts[CHOOSE i \in hits : \A j \in hits : j <= i]]]

\* what getStaticProps of the post page returns for a slug param:
\* posts.find((post) => slug(post.title) === param), the first post whose
\* slug is the param, as props, and notFound when there is none
postOfSlug(page, posts, param) ==
    LET hits == {i \in DOMAIN posts : routeSlug(page, posts[i]) = param}
    IN  IF hits = {} THEN [notFound |-> TRUE]
        ELSE [props |->
                [post |-> posts[CHOOSE i \in hits : \A j \in hits : i <= j]]]

\* pages/post/[slug]: what a getStaticProps call with a slug param can
\* settle with: it rejects when getPosts rejects (the posts are loaded
\* again) and otherwise returns the post of the param, or notFound
PropsSettlements(page, v, dir, from, param) ==
    {IF load.pc = "rejected" THEN load
     ELSE [pc |-> "fulfilled",
           returned |-> <<postOfSlug(page, load.returned[1], param)>>] :
        load \in getPosts(v, dir, from)}

\* pages/post/[slug]: getStaticProps is called with the slug param, calls
\* getPosts and awaits it
PostGetStaticPropsOf(param) ==
    /\ postProps = <<>>
    /\ "post getStaticProps" \notin pending \cup rejected
    /\ pending' = pending \cup {"post getStaticProps"}
    /\ context' = param
    /\ UNCHANGED <<indexProps, paths, postProps, rejected>>
    /\ UNCHANGED buildVars

\* pages/post/[slug]: getStaticProps is called by the build for one of the
\* paths getStaticPaths returned (fallback: false)
PostGetStaticPropsCall ==
    /\ paths # <<>>
    /\ \E k \in DOMAIN paths[1].paths : PostGetStaticPropsOf(paths[1].paths[k])

\* pages/post/[slug]: getPosts settles (the posts are loaded again) and
\* getStaticProps with it, rejecting or returning the post of the param
PostGetStaticPropsReturn ==
    /\ "post getStaticProps" \in pending
    /\ pending' = pending \ {"post getStaticProps"}
    /\ \E call \in
             PropsSettlements(postPage, version, disk, clock, context) :
          IF call.pc = "rejected"
          THEN /\ rejected' = rejected \cup {"post getStaticProps"}
               /\ UNCHANGED postProps
          ELSE /\ postProps' = call.returned
               /\ UNCHANGED rejected
    /\ UNCHANGED <<indexProps, paths, context>>
    /\ UNCHANGED buildVars

\* pages/post/[slug]: getStaticProps
PostGetStaticProps == PostGetStaticPropsCall \/ PostGetStaticPropsReturn

\* the lists a getPosts call can fulfil with on a directory: one for every
\* choice of the instants its undated files are read at
Loads(dir) ==
    {load.returned[1] :
        load \in {l \in getPosts(version, dir, clock) : l.pc = "fulfilled"}}

-----------------------------------------------------------------------------
(* The Astro site: the posts are the entries of the content collection     *)
(* 'blog', one per file of the directory.                                  *)

\* the name without its extension
RECURSIVE dropExtension(_)
dropExtension(name) ==
    IF name = <<>> THEN <<>>
    ELSE IF name[Len(name)] = "." THEN SubSeq(name, 1, Len(name) - 1)
         ELSE IF "." \notin Range(name) THEN name
              ELSE dropExtension(SubSeq(name, 1, Len(name) - 1))

\* the slug Astro generates from a file's name without the extension (the
\* slug function of github-slugger), for a name of ASCII characters: lower
\* case, every character but letters, digits, '_', '-' and the space
\* removed, every space made a hyphen
githubSlug(name) ==
    LET kept == SelectSeq(toLowerCase(name),
                          LAMBDA c : c \in WordChar \cup {Hyphen, " "})
    IN  [i \in DOMAIN kept |-> IF kept[i] = " " THEN Hyphen ELSE kept[i]]

\* the slug of a collection entry: the slug of the front-matter when it
\* gives one, the slug generated from the file's name otherwise
entrySlug(file) ==
    IF "slug" \in DOMAIN file.data THEN file.data.slug
    ELSE githubSlug(dropExtension(file.name))

\* getCollection('blog'): an entry per file of src/content/blog, its data
\* the front-matter without the slug
getCollection(entries) ==
    [i \in DOMAIN entries |->
        [id |-> entries[i].name,
         slug |-> entrySlug(entries[i]),
         data |-> [key \in DOMAIN entries[i].data \ {"slug"} |->
                      entries[i].data[key]],
         body |-> entries[i].content]]

RECURSIVE dropLeadingDigits(_)
dropLeadingDigits(s) ==
    IF s # <<>> /\ Head(s) \in Digit THEN dropLeadingDigits(Tail(s)) ELSE s

\* s.replace(/^[0-9]+-/, ''): leading digits followed by a hyphen are removed
stripIndex(s) ==
    LET rest == dropLeadingDigits(s)
    IN  IF rest # s /\ rest # <<>> /\ Head(rest) = Hyphen THEN Tail(rest)
        ELSE s

BlogPrefix == <<"/", "b", "l", "o", "g", "/">>

\* the link made of the entry's slug as it is
rssItemUnstripped(post) ==
    [link |-> BlogPrefix \o post.slug \o <<"/">>] @@ post.data

\* an item of the feed: { ...post.data, link }
rssItem(post) ==
    [link |-> BlogPrefix \o stripIndex(post.slug) \o <<"/">>] @@ post.data

\* the parts of the state the pages of the Astro site leave alone
restVars ==
    <<version, clock, disk, postPage, indexProps, paths, context, postProps,
      rejected, homeVars, headings, toc, children, heading, keyVars,
      slugVars, orderVars, pc, files, task, settled, reads, returned,
      callVars>>

\* pages/rss.xml: get is called, calls getCollection('blog') and awaits it
RssGetCall ==
    /\ feed = <<>>
    /\ "rss get" \notin pending
    /\ pending' = pending \cup {"rss get"}
    /\ UNCHANGED <<feed, astroPaths, listing>>
    /\ UNCHANGED restVars

\* pages/rss.xml: getCollection settles and get returns the items
RssGetReturn ==
    /\ "rss get" \in pending
    /\ pending' = pending \ {"rss get"}
    /\ LET posts == getCollection(disk.entries)
       IN  feed' = <<[i \in DOMAIN posts |-> rssItem(posts[i])]>>
    /\ UNCHANGED <<astroPaths, listing>>
    /\ UNCHANGED restVars

\* pages/rss.xml: get
RssGet == RssGetCall \/ RssGetReturn

\* pages/blog/[slug]: getStaticPaths is called, calls getCollection('blog')
\* and awaits it
AstroGetStaticPathsCall ==
    /\ astroPaths = <<>>
    /\ "blog getStaticPaths" \notin pending
    /\ pending' = pending \cup {"blog getStaticPaths"}
    /\ UNCHANGED <<feed, astroPaths, listing>>
    /\ UNCHANGED restVars

\* pages/blog/[slug]: getCollection settles and getStaticPaths returns one
\* path per entry
AstroGetStaticPathsReturn ==
    /\ "blog getStaticPaths" \in pending
    /\ pending' = pending \ {"blog getStaticPaths"}
    /\ LET posts == getCollection(disk.entries)
       IN  astroPaths' =
              <<[i \in DOMAIN posts |->
                    [params |-> [slug |-> stripIndex(posts[i].slug)],
                     props |-> posts[i]]]>>
    /\ UNCHANGED <<feed, listing>>
    /\ UNCHANGED restVars

\* pages/blog/[slug]: getStaticPaths
AstroGetStaticPaths == AstroGetStaticPathsCall \/ AstroGetStaticPathsReturn

\* b.data.pubDate.valueOf() - a.data.pubDate.valueOf() with the operands
\* exchanged: ascending order
astroCompareAscending(a, b) ==
    LET firstDate == dayjs(a.data.date)
        secondDate == dayjs(b.data.date)
    IN  IF firstDate = NaN \/ secondDate = NaN THEN 0
        ELSE firstDate - secondDate

\* the comparator of the blog index, the publication date being the date
\* of the front-matter: b.data.pubDate.valueOf() - a.data.pubDate.valueOf().
\* With an invalid Date the difference is NaN, which sort takes as +0.
astroCompare(a, b) ==
    LET firstDate == dayjs(a.data.date)
        secondDate == dayjs(b.data.date)
    IN  IF firstDate = NaN \/ secondDate = NaN THEN 0
        ELSE secondDate - firstDate

\* the entry of the listing linked by the slug as it is
listingItemUnstripped(post) ==
    [href |-> BlogPrefix \o post.slug \o <<"/">>,
     title |-> Nullish(post.data, "title", <<>>),
     pubDate |-> IF "date" \in DOMAIN post.data THEN <<post.data.date>>
                 ELSE <<>>,
     description |-> Nullish(post.data, "description", <<>>)]

\* an entry of the listing: the link around title, date (the pubDate
\* handed to FormattedDate, none when the entry has none) and description
listingItem(post) ==
    [href |-> BlogPrefix \o stripIndex(post.slug) \o <<"/">>,
     title |-> Nullish(post.data, "title", <<>>),
     pubDate |-> IF "date" \in DOMAIN post.data THEN <<post.data.date>>
                 ELSE <<>>,
     description |-> Nullish(post.data, "description", <<>>)]

\* pages/blog/index: the page is rendered, calls getCollection('blog') and
\* awaits it
AstroBlogIndexCall ==
    /\ listing = <<>>
    /\ "blog index" \notin pending
    /\ pending' = pending \cup {"blog index"}
    /\ UNCHANGED <<feed, astroPaths, listing>>
    /\ UNCHANGED restVars

\* pages/blog/index: getCollection settles, the entries are sorted and
\* listed. sort calls the comparator when there are two entries or more,
\* on every one of them; reading valueOf of a missing publication date
\* then throws.
AstroBlogIndexReturn ==
    /\ "blog index" \in pending
    /\ pending' = pending \ {"blog index"}
    /\ LET entries == getCollection(disk.entries)
           undated == \E i \in DOMAIN entries : "date" \notin DOMAIN entries[i].data
       IN  IF Len(entries) >= 2 /\ undated
           THEN listing' = <<[error |-> "TypeError"]>>
           ELSE LET comparefn == [a \in Range(entries), b \in Range(entries) |->
                                     astroCompare(a, b)]
                    posts == sort(entries, comparefn)
                IN  listing' =
                       <<[posts |-> [i \in DOMAIN posts |-> listingItem(posts[i])]]>>
    /\ UNCHANGED <<feed, astroPaths>>
    /\ UNCHANGED restVars

\* pages/blog/index
AstroBlogIndex == AstroBlogIndexCall \/ AstroBlogIndexReturn

\* the most headings of a post's body
MaxHeadings == 3

\* the deepest heading level of a body
MaxDepth == 3

\* the pixels one level of depth indents an entry by
IndentStep == 25

\* the headings post.render() gives: depth, slug and text of each heading
\* of the body, in document order
HeadingSet ==
    {[depth |-> d, slug |-> h.slug, text |-> h.text] :
        d \in 1 .. MaxDepth,
        h \in {[slug |-> <<"a">>, text |-> <<"A">>],
                [slug |-> <<"b", "-", "c">>, text |-> <<"B", " ", "c">>]}}

\* an entry indented by its depth, the first level included
tocEntryFullDepth(h) ==
    [marginLeft |-> h.depth * IndentStep,
     href |-> <<"#">> \o h.slug,
     text |-> h.text]

\* an entry of the table of contents: a block span indented by
\* (depth - 1) * 25 px around a link to the heading
tocEntry(h) ==
    [marginLeft |-> (h.depth - 1) * IndentStep,
     href |-> <<"#">> \o h.slug,
     text |-> h.text]

\* headings.length > 0 && <h1 id="toc">Table of contents</h1>
tocTitle(hs) == Len(hs) > 0

\* pages/blog/[...slug]: the table of contents of the page
AstroPostPage ==
    /\ toc = <<>>
    /\ toc' = <<[title |-> tocTitle(headings),
                 entries |-> [i \in DOMAIN headings |-> tocEntry(headings[i])]]>>
    /\ UNCHANGED <<listing, headings, children, heading, keyVars>>
    /\ UNCHANGED <<postPage, indexProps, paths, routeVars, homeVars>>
    /\ UNCHANGED <<slugVars, orderVars, fileVars, loadVars>>

InitToc ==
    /\ headings \in SeqsUpTo(HeadingSet, MaxHeadings)
    /\ toc = <<>>
    /\ listing = <<>> /\ children = <<>> /\ heading = <<>> /\ IdleKeys
    /\ postPage = "" /\ indexProps = <<>> /\ paths = <<>>
    /\ IdleRoutes /\ IdleHome
    /\ IdleVersion /\ IdleDisk
    /\ IdleSlug /\ IdleOrder /\ IdleLoad

NextToc == AstroPostPage

SpecToc == InitToc /\ [][NextToc]_vars

\* the names of the collection's files: without an index and with an upper
\* case letter and a space, with an index, with two indices, with a
\* two-digit index
AstroFileNames ==
    << <<"C", " ", "d">> \o MdExtension,
       <<"1", "-", "a">> \o MdExtension,
       <<"4", "-", "5", "-", "d">> \o MdExtension,
       <<"1", "0", "-", "a">> \o MdExtension,
       <<"2", "-", "b">> \o MdExtension,
       <<"6", "-", "e">> \o MdExtension >>

\* the contents of the collection's files: those of the posts directory
\* and one whose front-matter gives the slug
AstroContents ==
    PageContents \cup
    {[data |-> [title |-> TitleB, date |-> LateDate,
                slug |-> <<"7", "-", "x">>],
      content |-> PlainText(4)]}

AstroDirectories ==
    {[i \in DOMAIN q |->
        File(AstroFileNames[i], TRUE, TRUE, TRUE, q[i].data, q[i].content)] :
     q \in Listings(AstroContents, MaxPosts)}

\* the build of the Astro site
InitAstro ==
    /\ disk \in {[missing |-> FALSE, entries |-> l] : l \in AstroDirectories}
    /\ IdleVersion
    /\ IdlePages
    /\ IdleSlug /\ IdleOrder /\ IdleLoad

NextAstro == RssGet \/ AstroGetStaticPaths \/ AstroBlogIndex

SpecAstro == InitAstro /\ [][NextAstro]_vars

\* the listings of the two versions of the site on one directory
InitListings ==
    /\ version \in Versions
    /\ clock = 0
    /\ disk \in {[missing |-> FALSE, entries |-> l] : l \in PageDirectories}
    /\ postPage = PostPageSlugOfTitle
    /\ indexProps = <<>>
    /\ paths = <<>>
    /\ IdleRoutes /\ IdleHome /\ IdleViews
    /\ IdleSlug /\ IdleOrder /\ IdleLoad

NextListings == IndexGetStaticProps \/ AstroBlogIndex

SpecListings == InitListings /\ [][NextListings]_vars

\* the route generation of every version of the site on one directory
NextRoutes ==
    \/ IndexGetStaticProps
    \/ PostGetStaticPaths
    \/ AstroGetStaticPaths

SpecRoutes == InitPages /\ [][NextRoutes]_vars

NextPages == IndexGetStaticProps \/ PostGetStaticPaths \/ PostGetStaticProps

\* the slug params of the requests: slugs of titles of the posts, the slug
\* of a Post object's toString(), the empty slug, a slug no post has
RequestedSlugs ==
    {<<>>, <<"a">>, <<"b">>, <<"c", "-", "d">>, <<"z">>,
     slug(Unknown), slug(ObjectToString)}

\* pages/post/[slug]: getStaticProps called with any slug param, whatever
\* paths were generated
NextRequest ==
    \/ \E param \in RequestedSlugs : PostGetStaticPropsOf(param)
    \/ PostGetStaticPropsReturn

SpecRequest == InitPages /\ [][NextRequest]_vars

SpecPages == InitPages /\ [][NextPages]_vars

-----------------------------------------------------------------------------
(* pages/index: the Home component. Its state is the search text and the   *)
(* results of the last search; the Fuse index is built once, from the      *)
(* posts prop, when the component mounts.                                  *)

\* the strings of at most n characters of a set
RECURSIVE StringsUpTo(_, _)
StringsUpTo(chars, n) ==
    IF n = 0 THEN {<<>>}
    ELSE LET shorter == StringsUpTo(chars, n - 1)
         IN  shorter \cup {Append(s, c) : s \in shorter, c \in chars}

\* fuse.search(pattern).map((item) => item.item) on the index built from
\* posts: the lists Fuse can return. Fuse is not part of the repository
\* and its scoring (keys title, tags, date; threshold 0.25) is left open:
\* it returns documents of the index, each at most once, in the order of
\* their scores, so any list of different documents of the index is a
\* possible result.
fuseSearch(posts, pattern) ==
    {[k \in DOMAIN hits |-> posts[hits[k]]] :
        hits \in Listings(DOMAIN posts, Len(posts))}

\* useMemo(() => (search === '' ? posts : results), [search, results])
\* the results shown whatever the search text
filteredPostsAlwaysFound(posts, text, found) == found

filteredPosts(posts, text, found) == IF text = <<>> THEN posts ELSE found

\* the texts the search input holds after an input event: empty, a letter
\* of a title in either case, a digit of a date, two letters of 'Unknown',
\* a text no post has
SearchTexts == {<<>>, <<"a">>, <<"B">>, <<"2">>, <<"k", "n">>, <<"z">>}

\* Home mounts with the posts prop of getStaticProps
HomeMount ==
    /\ indexProps # <<>>
    /\ search = <<>>
    /\ search' = << <<>> >>
    /\ results' = << <<>> >>
    /\ searched' = FALSE
    /\ query' = <<>>
    /\ UNCHANGED <<postPage, indexProps, paths, routeVars>>
    /\ UNCHANGED <<version, clock, disk, slugVars, orderVars>>
    /\ UNCHANGED <<pc, files, task, settled, reads, returned, callVars>>
    /\ UNCHANGED viewVars

\* handleSearch on an input event whose target holds text: both state
\* updates are applied in one render
handleSearch(text) ==
    /\ search # <<>>
    /\ search' = <<text>>
    /\ \E hits \in fuseSearch(indexProps[1], text) : results' = <<hits>>
    /\ query' = <<text>>
    /\ searched' = (searched \/ text # <<>>)
    /\ UNCHANGED <<postPage, indexProps, paths, routeVars>>
    /\ UNCHANGED <<version, clock, disk, slugVars, orderVars>>
    /\ UNCHANGED <<pc, files, task, settled, reads, returned, callVars>>
    /\ UNCHANGED viewVars

\* the contents of the posts of the index page: a later date, an earlier
\* date, a date that does not parse, no date
HomeContents ==
    {c \in PageContents :
        "title" \in DOMAIN c.data /\ c.data.title \in {TitleA, <<"a">>, <<"C", " ", "d">>}}

InitHome ==
    /\ version \in Versions
    /\ clock = 0
    /\ disk \in {[missing |-> FALSE, entries |-> l] :
                   l \in Directories(HomeContents, MaxPosts)}
    /\ postPage = PostPageSlugOfTitle
    /\ indexProps = <<>>
    /\ paths = <<>>
    /\ IdleRoutes /\ IdleHome /\ IdleViews
    /\ IdleSlug /\ IdleOrder /\ IdleLoad

NextHome ==
    \/ IndexGetStaticProps
    \/ HomeMount
    \/ \E text \in SearchTexts : handleSearch(text)

SpecHome == InitHome /\ [][NextHome]_vars

-----------------------------------------------------------------------------
(* pages/index: the search shortcut of Home. The input's callback ref      *)
(* focuses the element and stores it in the searchInput state; an effect   *)
(* that depends on searchInput registers detectSearch on the document and  *)
(* its cleanup removes it. React runs the commit, the effects of the first *)
(* render and the render the ref's state update asks for in one task, so   *)
(* events reach the document only before and after them; the cleanup of an *)
(* unmounted component's effect runs after the commit that removed it.     *)

\* the most mounts of Home
MaxMounts == 2

\* the keydown events: k or another key, with and without Ctrl and Meta
KeyEvents ==
    {[key |-> k, ctrlKey |-> c, metaKey |-> m] :
        k \in {"k", "a"}, c \in BOOLEAN, m \in BOOLEAN}

\* element?.focus(): nothing for undefined or null, nor for an element
\* that is not in the document
focus(element, attached, active) ==
    IF element # 0 /\ element = attached THEN element ELSE active

\* detectSearch of the effect whose closure holds element
detectSearch(element, event, attached, active) ==
    IF (event.metaKey \/ event.ctrlKey) /\ event.key = "k"
    THEN focus(element, attached, active)
    ELSE active

\* the listeners of the document called in the order they were added
RECURSIVE dispatchEvent(_, _, _, _)
dispatchEvent(ls, event, attached, active) ==
    IF ls = <<>> THEN active
    ELSE dispatchEvent(Tail(ls), event, attached,
                       detectSearch(Head(ls), event, attached, active))

\* document.addEventListener('keydown', detectSearch)
addEventListener(ls, element) == Append(ls, element)

\* document.removeEventListener('keydown', detectSearch), detectSearch
\* being the listener the component added last
removeEventListener(ls) ==
    IF ls = <<>> THEN ls ELSE SubSeq(ls, 1, Len(ls) - 1)

\* Home is rendered and committed: the input is in the document and
\* inputRef is called with it (focus, setSearchInput)
HomeCommit ==
    /\ phase = "unmounted"
    /\ mounts < MaxMounts
    /\ mounts' = mounts + 1
    /\ inputElement' = mounts + 1
    /\ activeElement' = focus(mounts + 1, mounts + 1, activeElement)
    /\ phase' = "committed"
    /\ UNCHANGED <<searchInput, listeners, lastKey>>
    /\ UNCHANGED <<listing, headings, toc, children, heading>>
    /\ UNCHANGED <<postPage, indexProps, paths, routeVars, homeVars>>
    /\ UNCHANGED <<slugVars, orderVars, fileVars, loadVars>>

\* the effect of the first render: searchInput is undefined in its closure
EffectFirst ==
    /\ phase = "committed"
    /\ listeners' = addEventListener(listeners, searchInput)
    /\ phase' = "updating"
    /\ UNCHANGED <<inputElement, searchInput, activeElement, lastKey, mounts>>
    /\ UNCHANGED <<listing, headings, toc, children, heading>>
    /\ UNCHANGED <<postPage, indexProps, paths, routeVars, homeVars>>
    /\ UNCHANGED <<slugVars, orderVars, fileVars, loadVars>>

\* the render setSearchInput(element) asked for
HomeRerender ==
    /\ phase = "updating"
    /\ searchInput' = inputElement
    /\ phase' = "rendered"
    /\ UNCHANGED <<inputElement, listeners, activeElement, lastKey, mounts>>
    /\ UNCHANGED <<listing, headings, toc, children, heading>>
    /\ UNCHANGED <<postPage, indexProps, paths, routeVars, homeVars>>
    /\ UNCHANGED <<slugVars, orderVars, fileVars, loadVars>>

\* a changed dependency whose previous effect is left as it is
EffectCleanupSkipped ==
    /\ phase = "rendered"
    /\ phase' = "cleaned"
    /\ UNCHANGED <<inputElement, searchInput, listeners, activeElement,
                   lastKey, mounts>>
    /\ UNCHANGED <<listing, headings, toc, children, heading>>
    /\ UNCHANGED <<postPage, indexProps, paths, routeVars, homeVars>>
    /\ UNCHANGED <<slugVars, orderVars, fileVars, loadVars>>

\* searchInput changed: the cleanup of the previous effect
EffectCleanup ==
    /\ phase = "rendered"
    /\ listeners' = removeEventListener(listeners)
    /\ phase' = "cleaned"
    /\ UNCHANGED <<inputElement, searchInput, activeElement, lastKey, mounts>>
    /\ UNCHANGED <<listing, headings, toc, children, heading>>
    /\ UNCHANGED <<postPage, indexProps, paths, routeVars, homeVars>>
    /\ UNCHANGED <<slugVars, orderVars, fileVars, loadVars>>

\* the effect of the second render: the element is in its closure
EffectAgain ==
    /\ phase = "cleaned"
    /\ listeners' = addEventListener(listeners, searchInput)
    /\ phase' = "idle"
    /\ UNCHANGED <<inputElement, searchInput, activeElement, lastKey, mounts>>
    /\ UNCHANGED <<listing, headings, toc, children, heading>>
    /\ UNCHANGED <<postPage, indexProps, paths, routeVars, homeVars>>
    /\ UNCHANGED <<slugVars, orderVars, fileVars, loadVars>>

\* a keydown event reaches the document
Keydown(event) ==
    /\ phase \in {"unmounted", "idle", "unmounting"}
    /\ activeElement' =
          dispatchEvent(listeners, event, inputElement, activeElement)
    /\ lastKey' = <<[event |-> event, active |-> activeElement]>>
    /\ UNCHANGED <<phase, inputElement, searchInput, listeners, mounts>>
    /\ UNCHANGED <<listing, headings, toc, children, heading>>
    /\ UNCHANGED <<postPage, indexProps, paths, routeVars, homeVars>>
    /\ UNCHANGED <<slugVars, orderVars, fileVars, loadVars>>

\* the focus leaves the input
Blur ==
    /\ phase = "idle"
    /\ activeElement = inputElement
    /\ activeElement' = 0
    /\ lastKey' = <<>>
    /\ UNCHANGED <<phase, inputElement, searchInput, listeners, mounts>>
    /\ UNCHANGED <<listing, headings, toc, children, heading>>
    /\ UNCHANGED <<postPage, indexProps, paths, routeVars, homeVars>>
    /\ UNCHANGED <<slugVars, orderVars, fileVars, loadVars>>

\* Home is removed: inputRef is called with null (no focus, and a state
\* update of a component that is gone), the input leaves the document
HomeUnmount ==
    /\ phase = "idle"
    /\ activeElement' = IF activeElement = inputElement THEN 0 ELSE activeElement
    /\ inputElement' = 0
    /\ phase' = "unmounting"
    /\ UNCHANGED <<searchInput, listeners, lastKey, mounts>>
    /\ UNCHANGED <<listing, headings, toc, children, heading>>
    /\ UNCHANGED <<postPage, indexProps, paths, routeVars, homeVars>>
    /\ UNCHANGED <<slugVars, orderVars, fileVars, loadVars>>

\* the cleanup of the last effect of the removed component
UnmountCleanup ==
    /\ phase = "unmounting"
    /\ listeners' = removeEventListener(listeners)
    /\ searchInput' = 0
    /\ phase' = "unmounted"
    /\ UNCHANGED <<inputElement, activeElement, lastKey, mounts>>
    /\ UNCHANGED <<listing, headings, toc, children, heading>>
    /\ UNCHANGED <<postPage, indexProps, paths, routeVars, homeVars>>
    /\ UNCHANGED <<slugVars, orderVars, fileVars, loadVars>>

InitKeys ==
    /\ IdlePages
    /\ IdleVersion /\ IdleDisk
    /\ IdleSlug /\ IdleOrder /\ IdleLoad

NextKeys ==
    \/ HomeCommit
    \/ EffectFirst
    \/ HomeRerender
    \/ EffectCleanup
    \/ EffectAgain
    \/ \E event \in KeyEvents : Keydown(event)
    \/ Blur
    \/ HomeUnmount
    \/ UnmountCleanup

SpecKeys == InitKeys /\ [][NextKeys]_vars

-----------------------------------------------------------------------------
(* The slug calls: slug(value), then slug of the result. *)

\* the characters the strings handed to slug are made of: one or two of
\* every class the regular expressions of slug tell apart, and of those
\* outside ASCII a whitespace character (the no-break space) and a letter
\* whose lower case is a word character (the Kelvin sign)
InputChars == {" ", "\t", "U+00A0", "A", "U+212A", "b", "1", "_", "-", "!"}

\* a title with surrounding whitespace, capitals and punctuation
HelloWorldTitle ==
    <<" ", " ", "H", "e", "l", "l", "o", ",", " ",
      "W", "o", "r", "l", "d", "!", " ", " ">>

InitSlug ==
    /\ value \in StringsUpTo(InputChars, MaxLen) \cup {HelloWorldTitle}
    /\ slugOut = <<>>
    /\ slugRepeat = <<>>
    /\ IdleOrder /\ IdleVersion /\ IdleDisk /\ IdleLoad /\ IdlePages

SlugCall ==
    /\ slugOut = <<>>
    /\ slugOut' = <<slug(value)>>
    /\ UNCHANGED <<value, slugRepeat, orderVars, fileVars, loadVars, pageVars>>

SlugAgain ==
    /\ Len(slugOut) = 1
    /\ slugOut' = Append(slugOut, slug(slugOut[1]))
    /\ UNCHANGED <<value, slugRepeat, orderVars, fileVars, loadVars, pageVars>>

\* a further call of slug on the same value
SlugRepeat ==
    /\ slugOut # <<>>
    /\ slugRepeat = <<>>
    /\ slugRepeat' = <<slug(value)>>
    /\ UNCHANGED <<value, slugOut, orderVars, fileVars, loadVars, pageVars>>

NextSlug == SlugCall \/ SlugAgain \/ SlugRepeat

SpecSlug == InitSlug /\ [][NextSlug]_vars

-----------------------------------------------------------------------------
(* pages/post/[slug]: CustomH1, the component MDX renders an H1 with. Its  *)
(* children are a string when the heading is plain text, and an array of   *)
(* strings and elements when the heading holds inline markup.              *)

\* the longest text of a heading
MaxHeadingText == 2

\* a node of the children: a string, or an inline code element and its text
TextNode(s) == [tag |-> "#text", text |-> s]
CodeNode(s) == [tag |-> "code", text |-> s]

StringChildren(s) == [typeof |-> "string", nodes |-> <<TextNode(s)>>]

ObjectChildren(nodes) == [typeof |-> "object", nodes |-> nodes]

\* the children of the headings: every short text, and headings with
\* inline code after, before and in place of the text
ChildrenSet ==
    {StringChildren(s) : s \in StringsUpTo(InputChars, MaxHeadingText)} \cup
    {ObjectChildren(<<TextNode(<<"A", " ">>), CodeNode(<<"b">>)>>),
     ObjectChildren(<<CodeNode(<<"b">>), TextNode(<<" ", "A">>)>>),
     ObjectChildren(<<CodeNode(<<"b">>)>>)}

\* the template literal of a value: 'undefined' for undefined
Undefined == <<"u", "n", "d", "e", "f", "i", "n", "e", "d">>

\* what CustomH1 renders: the link's href and the h1's id attribute (none
\* when id is undefined) around the children
CustomH1(c) ==
    LET id == IF c.typeof = "string" THEN <<slug(c.nodes[1].text)>> ELSE <<>>
    IN  [href |-> <<"#">> \o (IF id = <<>> THEN Undefined ELSE id[1]),
         id |-> id,
         children |-> c]

InitHeading ==
    /\ children \in {<<c>> : c \in ChildrenSet}
    /\ heading = <<>>
    /\ listing = <<>> /\ headings = <<>> /\ toc = <<>> /\ IdleKeys
    /\ postPage = "" /\ indexProps = <<>> /\ paths = <<>>
    /\ IdleRoutes /\ IdleHome
    /\ IdleVersion /\ IdleDisk
    /\ IdleSlug /\ IdleOrder /\ IdleLoad

RenderH1 ==
    /\ heading = <<>>
    /\ heading' = <<CustomH1(children[1])>>
    /\ UNCHANGED <<listing, headings, toc, children, keyVars>>
    /\ UNCHANGED <<postPage, indexProps, paths, routeVars, homeVars>>
    /\ UNCHANGED <<slugVars, orderVars, fileVars, loadVars>>

NextHeading == RenderH1

SpecHeading == InitHeading /\ [][NextHeading]_vars

-----------------------------------------------------------------------------
(* C1: for every input string s, slug(slug(s)) = slug(s).                  *)
C1_SlugIdempotent ==
    Len(slugOut) = 2 => slugOut[2] = slugOut[1]

\* a second call on a result that the first call had to change
C1_Witness ==
    /\ Len(slugOut) = 2
    /\ slugOut[1] # value
    /\ Len(slugOut[1]) >= 3

(* C2: slug(s) does not begin with '-', does not end with '-' and holds    *)
(* no two adjacent '-'.                                                    *)
C2_NoStrayHyphens ==
    \A k \in DOMAIN slugOut :
        LET r == slugOut[k]
        IN  /\ r # <<>> => r[1] # Hyphen /\ r[Len(r)] # Hyphen
            /\ \A i \in 1 .. Len(r) - 1 : ~(r[i] = Hyphen /\ r[i + 1] = Hyphen)

\* an input that begins or ends with a hyphen and holds a run of hyphens,
\* slugged to a non-empty result
C2_Witness ==
    /\ Len(slugOut) >= 1
    /\ value # <<>>
    /\ value[1] = Hyphen \/ value[Len(value)] = Hyphen
    /\ \E i \in 1 .. Len(value) - 1 : value[i] = Hyphen /\ value[i + 1] = Hyphen
    /\ slugOut[1] # <<>>

(* C3 as stated: every character of slug(s) is a lowercase letter, a digit *)
(* or a hyphen (the underscore is removed with the punctuation).           *)
C3_OnlyLowerDigitHyphen ==
    \A k \in DOMAIN slugOut :
        \A i \in DOMAIN slugOut[k] :
            slugOut[k][i] \in Lower \cup Digit \cup {Hyphen}

(* C3 amended: every character of slug(s) is a lowercase letter, a digit,  *)
(* an underscore or a hyphen; whitespace, punctuation and symbols are      *)
(* removed, the underscore (a \w character) is kept.                       *)
C3_OnlyLowerDigitUnderscoreHyphen ==
    \A k \in DOMAIN slugOut :
        \A i \in DOMAIN slugOut[k] :
            slugOut[k][i] \in Lower \cup Digit \cup {"_", Hyphen}

\* an input with an uppercase letter, an underscore and punctuation, whose
\* slug keeps the underscore
C3_Witness ==
    /\ Len(slugOut) >= 1
    /\ \E i \in DOMAIN value : value[i] \in Upper
    /\ \E i \in DOMAIN value : value[i] = "!"
    /\ \E i \in DOMAIN value : value[i] = "_"
    /\ \E i \in DOMAIN slugOut[1] : slugOut[1][i] = "_"

(* C8: orderPostsByDate(a, b) is negative when a's date is later than     *)
(* b's, positive when it is earlier, and 0 when both are the same instant. *)
C8_ComparatorSign ==
    orderOut # <<>> /\ first.date # NaN /\ second.date # NaN =>
        /\ first.date > second.date => orderOut[1] < 0
        /\ first.date < second.date => orderOut[1] > 0
        /\ first.date = second.date => orderOut[1] = 0

\* a call on a later and an earlier post that answered "first comes first"
C8_Witness ==
    /\ orderOut # <<>>
    /\ first.date # NaN /\ second.date # NaN
    /\ first.date > second.date
    /\ orderOut[1] = -1

(* C9: with no description in the front-matter and a plain text longer     *)
(* than 200 characters, the Post's description is exactly the first 200    *)
(* characters of the plain text.                                           *)
C9_DerivedWhenMissing ==
    pc = "fulfilled" =>
        \A i \in DOMAIN returned[1] :
            LET file == disk.entries[i]
                plain == markdownToTxt(file.content)
            IN  "description" \notin DOMAIN file.data /\ Len(plain) > 200
                => /\ Len(returned[1][i].description) = 200
                   /\ returned[1][i].description = SubSeq(plain, 1, 200)

(* C10: a description supplied by the front-matter is the Post's           *)
(* description; the description is derived from the body only when the     *)
(* front-matter has none.                                                  *)
C10_SuppliedDescriptionKept ==
    pc = "fulfilled" =>
        \A i \in DOMAIN returned[1] :
            "description" \in DOMAIN disk.entries[i].data =>
                returned[1][i].description = disk.entries[i].data.description

(* C5: getPosts returns exactly one Post per directory entry, and the    *)
(* i-th Post is built from the i-th entry of the listing, whatever order   *)
(* the reads and compilations complete in.                                 *)
C5_ListingOrder ==
    returned # <<>> =>
        /\ Len(returned[1]) = Len(disk.entries)
        /\ \A i \in DOMAIN returned[1] :
              /\ returned[1][i].serialized.compiledSource
                    = disk.entries[i].content
              /\ returned[1][i].title
                    = Nullish(disk.entries[i].data, "title", Unknown)

\* a list of three Posts whose callbacks fulfilled in another order than
\* the listing
C5_Witness ==
    /\ returned # <<>>
    /\ Len(returned[1]) = 3
    /\ settled[1] = 3 /\ settled[3] = 1

(* C6: if listing the directory, reading a file or parsing or compiling a  *)
(* file fails, getPosts fails and yields no Post list: never a partial     *)
(* list of the files that succeeded, and no read is issued twice.          *)
C6_AllOrNothing ==
    LET failed ==
            \/ disk.missing /\ pc \notin {"idle", "readdir"}
            \/ \E i \in DOMAIN task : task[i].state = "rejected"
        bad(file) == ~file.readable \/ ~file.wellFormed \/ ~file.compiles
    IN  /\ failed => pc = "rejected" /\ returned = <<>>
        /\ (\E i \in DOMAIN disk.entries : bad(disk.entries[i]))
              => pc # "fulfilled" /\ returned = <<>>
        /\ returned # <<>> =>
              /\ Len(returned[1]) = Len(task)
              /\ \A i \in DOMAIN task : task[i].state = "fulfilled"
        /\ \A j, k \in DOMAIN reads : j # k => reads[j] # reads[k]
        /\ Len(reads) <= Len(disk.entries)

\* a failed load in which one callback rejected, another fulfilled after
\* the failure, and nothing was returned
C6_Witness ==
    /\ pc = "rejected"
    /\ returned = <<>>
    /\ \E i, j \in DOMAIN task :
          /\ task[i].state = "rejected"
          /\ task[j].state = "fulfilled"
    /\ Len(reads) = Len(disk.entries)

(* C4: in every post collection produced by a load, each post's route     *)
(* slug is non-empty and no two posts have the same route slug.            *)
C4_RouteSlugsUnique ==
    paths # <<>> =>
        /\ \A i \in DOMAIN paths[1].paths : paths[1].paths[i] # <<>>
        /\ \A i, j \in DOMAIN paths[1].paths : i # j => paths[1].paths[i] # paths[1].paths[j]

\* the posts of an index page whose dates all parse
DatesValid(posts) == \A i \in DOMAIN posts : posts[i].date # NaN

\* shown is loaded in descending date order, posts of equal dates in the
\* order of loaded
SortedByDate(shown, loaded) ==
    /\ Len(shown) = Len(loaded)
    /\ \E pi \in [DOMAIN shown -> DOMAIN loaded] :
          /\ \A i, j \in DOMAIN shown : i # j => pi[i] # pi[j]
          /\ \A i \in DOMAIN shown : shown[i] = loaded[pi[i]]
          /\ \A i, j \in DOMAIN shown :
                i < j /\ shown[i].date = shown[j].date /\ shown[i].date # NaN
                   => pi[i] < pi[j]
    /\ \A i, j \in DOMAIN shown :
          i < j /\ shown[i].date # NaN /\ shown[j].date # NaN
             => shown[i].date >= shown[j].date

(* C7: the index page's post list is a permutation of the loaded posts     *)
(* sorted with orderPostsByDate: a post with a strictly later date comes   *)
(* before a post with an earlier date, and posts with equal dates keep     *)
(* their order from the loader.                                            *)
C7_IndexSortedByDate ==
    indexProps # <<>> =>
        \E loaded \in Loads(disk) : SortedByDate(indexProps[1], loaded)

\* the part of C7 the code keeps: the same, for the directories in which
\* every date parses
C7_SortedWhenDatesValid ==
    indexProps # <<>> /\ DatesValid(indexProps[1]) =>
        \E loaded \in Loads(disk) : SortedByDate(indexProps[1], loaded)

(* C11 as stated: when distinct posts derive the same slug, getStaticPaths *)
(* and getStaticProps raise no error and the post served at the slug is    *)
(* the last of the colliding posts.                                        *)
C11_LastCollidingServed ==
    postProps # <<>> =>
        \E posts \in Loads(disk) :
        LET hits == {i \in DOMAIN posts : routeSlug(postPage, posts[i]) = context}
        IN  /\ Len(paths[1].paths) = Len(posts)
            /\ hits # {}
            /\ "props" \in DOMAIN postProps[1]
            /\ \E j \in hits :
                  /\ \A i \in hits : i <= j
                  /\ postProps[1].props.post = posts[j]

(* C11 amended: when distinct posts derive the same slug, getStaticPaths   *)
(* returns one path per post (the same slug several times) and             *)
(* getStaticProps raises no error; the post served at the slug is the      *)
(* first of the colliding posts in collection order.                       *)
C11_FirstCollidingServed ==
    postProps # <<>> =>
        \E posts \in Loads(disk) :
        LET hits == {i \in DOMAIN posts : routeSlug(postPage, posts[i]) = context}
        IN  /\ Len(paths[1].paths) = Len(posts)
            /\ hits # {}
            /\ "props" \in DOMAIN postProps[1]
            /\ \E j \in hits :
                  /\ \A i \in hits : j <= i
                  /\ postProps[1].props.post = posts[j]

\* two different posts of the collection have the slug that was requested
C11_Witness ==
    /\ postProps # <<>>
    /\ \E posts \in Loads(disk) :
           \E i \in DOMAIN posts : \E j \in DOMAIN posts :
              /\ i < j
              /\ posts[i] # posts[j]
              /\ routeSlug(postPage, posts[i]) = context
              /\ routeSlug(postPage, posts[j]) = context

(* C12: a file whose front-matter has no tags yields a Post whose tags is  *)
(* the empty sequence, and no callback and no load fails on a file that    *)
(* can be read, parsed and compiled, whatever fields it leaves out.        *)
C12_MissingTagsEmpty ==
    /\ \A i \in DOMAIN task :
          /\ task[i].post # <<>> /\ "tags" \notin DOMAIN disk.entries[i].data
             => task[i].post[1].tags = <<>>
          /\ task[i].state = "rejected" =>
                \/ ~disk.entries[i].readable
                \/ ~disk.entries[i].wellFormed
                \/ ~disk.entries[i].compiles
    /\ pc = "fulfilled" =>
          \A i \in DOMAIN returned[1] :
             "tags" \notin DOMAIN disk.entries[i].data
             => returned[1][i].tags = <<>>
    /\ pc = "rejected" =>
          \/ disk.missing
          \/ \E i \in DOMAIN task : task[i].state = "rejected"

\* a fulfilled load of a file without tags and a file with tags
C12_Witness ==
    /\ pc = "fulfilled"
    /\ \E i \in DOMAIN returned[1] :
          /\ "tags" \notin DOMAIN disk.entries[i].data
          /\ "title" \in DOMAIN disk.entries[i].data
          /\ returned[1][i].tags = <<>>
    /\ \E j \in DOMAIN returned[1] :
          /\ "tags" \in DOMAIN disk.entries[j].data
          /\ returned[1][j].tags # <<>>

(* C13: an absent title or author becomes 'Unknown', an absent date        *)
(* becomes the current date at load time (an instant of the call, from its *)
(* start at 0 to the last reading of the clock), and every field the       *)
(* front-matter gives is carried into the Post unchanged.                  *)
C13_DefaultsAndEveryFieldCarried ==
    pc = "fulfilled" =>
        \A i \in DOMAIN returned[1] :
            LET data == disk.entries[i].data
                post == returned[1][i]
            IN  /\ "title" \notin DOMAIN data => post.title = Unknown
                /\ "author" \notin DOMAIN data => post.author = Unknown
                /\ "date" \notin DOMAIN data => post.date \in 0 .. clock
                /\ \A key \in DOMAIN data : post[key] = data[key]

(* C14: when the posts directory exists and holds no file, getPosts        *)
(* succeeds and returns the empty Post sequence.                           *)
C14_EmptyDirectory ==
    ~disk.missing /\ disk.entries = <<>> /\ pc \notin {"idle", "readdir"} =>
        /\ pc = "fulfilled"
        /\ returned = << <<>> >>
        /\ reads = <<>>

\* a call on an existing, empty directory after its readdir has settled
C14_Witness ==
    /\ ~disk.missing
    /\ disk.entries = <<>>
    /\ calls = 1
    /\ pc = "fulfilled"
    /\ returned = << <<>> >>

\* slug of the empty string is the empty string, and every result is made
\* of word characters and hyphens
SlugOfEmpty ==
    slugOut # <<>> =>
        /\ slugOut[1] \in Seq(WordChar \cup {Hyphen})
        /\ value = <<>> => slugOut[1] = <<>>

(* C16: slug("  Hello, World!  ") = "hello-world".                         *)
C16_HelloWorld ==
    value = HelloWorldTitle /\ slugOut # <<>> =>
        slugOut[1] = <<"h", "e", "l", "l", "o", "-", "w", "o", "r", "l", "d">>

\* slug called on "  Hello, World!  "
C16_Witness ==
    /\ value = HelloWorldTitle
    /\ Len(value) = 17
    /\ slugOut # <<>>
    /\ Len(slugOut[1]) = 11

(* C17: after any sequence of input events the index page shows the full   *)
(* date-ordered post list (every loaded post, a later date before an       *)
(* earlier one) when the search text is empty, and otherwise exactly what  *)
(* fuse.search returned for the current search text, never the result of   *)
(* an earlier text.                                                        *)
C17_DisplayedMatchesSearch ==
    search # <<>> =>
        LET shown == filteredPosts(indexProps[1], search[1], results[1])
        IN  IF search[1] = <<>>
            THEN /\ shown = indexProps[1]
                 /\ \E loaded \in Loads(disk) :
                       /\ Len(shown) = Len(loaded)
                       /\ \A post \in Range(loaded) : post \in Range(shown)
                 /\ \A i, j \in DOMAIN shown :
                       i < j /\ shown[i].date # NaN /\ shown[j].date # NaN
                          => shown[i].date >= shown[j].date
            ELSE /\ query = search
                 /\ shown = results[1]
                 /\ shown \in fuseSearch(indexProps[1], search[1])

\* the part of C17 the code keeps: the same, for the directories in which
\* every date parses
C17_MatchesWhenDatesValid ==
    search # <<>> /\ DatesValid(indexProps[1]) => C17_DisplayedMatchesSearch

(* C18: getPosts keeps no state between calls: every call lists the        *)
(* directory and reads every file again, and its result is built from the  *)
(* directory as it is at that call, never from what an earlier call saw.   *)
C18_NoStateBetweenCalls ==
    /\ pc \notin {"idle", "readdir"} /\ ~disk.missing =>
          /\ files = [i \in DOMAIN disk.entries |-> disk.entries[i].name]
          /\ reads = [i \in DOMAIN disk.entries |-> i]
    /\ pc \notin {"idle", "readdir"} /\ disk.missing => pc = "rejected"
    /\ pc = "fulfilled" =>
          /\ Len(returned[1]) = Len(disk.entries)
          /\ \A i \in DOMAIN returned[1] :
                returned[1][i] =
                   postOfFile(version, disk.entries[i], returned[1][i].date)
    /\ pc = "rejected" /\ ~disk.missing =>
          \E i \in DOMAIN disk.entries :
             ~disk.entries[i].readable \/ ~disk.entries[i].wellFormed
                \/ ~disk.entries[i].compiles

\* a second call that returned another list than the call before it
C18_Witness ==
    /\ calls = 2
    /\ pc = "fulfilled"
    /\ previous # <<>>
    /\ previous[1] # <<>>
    /\ returned[1] # <<>>
    /\ previous[1] # returned[1]

(* C20: the RSS feed holds exactly one item per post of the collection, in *)
(* collection order, and the link of each item is /blog/<slug>/ with the   *)
(* route slug of that post.                                                *)
C20_FeedItemPerPost ==
    feed # <<>> =>
        /\ Len(feed[1]) = Len(disk.entries)
        /\ \A i \in DOMAIN feed[1] :
              /\ \A key \in DOMAIN getCollection(disk.entries)[i].data :
                    feed[1][i][key] = disk.entries[i].data[key]
              /\ Len(feed[1][i].link) >= 7
              /\ SubSeq(feed[1][i].link, 1, 6) = BlogPrefix
              /\ feed[1][i].link[Len(feed[1][i].link)] = "/"
              /\ astroPaths # <<>> =>
                    SubSeq(feed[1][i].link, 7, Len(feed[1][i].link) - 1)
                       = astroPaths[1][i].params.slug

\* a feed of two posts or more, one of them a file whose name has an index,
\* on a site whose paths are generated
C20_Witness ==
    /\ feed # <<>>
    /\ astroPaths # <<>>
    /\ Len(feed[1]) >= 2
    /\ feed[1][1].link # feed[1][2].link
    /\ \E i \in DOMAIN feed[1] :
          astroPaths[1][i].params.slug # astroPaths[1][i].props.slug

(* C19 as stated: a post's record and its route slug do not depend on the  *)
(* name of its file: the same contents in the same listing order under     *)
(* other file names give equal Post sequences and equal slugs.             *)
C19_IndependentOfFileName ==
    LET other == Renamed(disk.entries)
        loads == Loads([disk EXCEPT !.entries = other])
        sorted(posts) ==
            sort(posts, [a \in Range(posts), b \in Range(posts) |->
                            orderPostsByDate(a, b)])
    IN  /\ indexProps # <<>> =>
              \E posts \in loads : indexProps[1] = sorted(posts)
        /\ paths # <<>> =>
              \A posts \in loads :
                  paths[1].paths = [i \in DOMAIN posts |-> routeSlug(postPage, posts[i])]
        /\ astroPaths # <<>> =>
              \A i \in DOMAIN astroPaths[1] :
                 astroPaths[1][i].params.slug
                    = stripIndex(getCollection(other)[i].slug)

(* C19 amended: in the Next.js versions a post's record and its route slug *)
(* do not depend on the name of its file: the same contents in the same    *)
(* listing order under other file names give equal Post sequences and      *)
(* equal slugs.                                                            *)
C19_NextIndependentOfFileName ==
    LET other == Renamed(disk.entries)
        loads == Loads([disk EXCEPT !.entries = other])
        sorted(posts) ==
            sort(posts, [a \in Range(posts), b \in Range(posts) |->
                            orderPostsByDate(a, b)])
    IN  /\ indexProps # <<>> =>
              \E posts \in loads : indexProps[1] = sorted(posts)
        /\ paths # <<>> =>
              \A posts \in loads :
                  paths[1].paths = [i \in DOMAIN posts |-> routeSlug(postPage, posts[i])]

\* the posts and the routes of the Next.js site generated for a directory
\* of two files or more, one without a title, that has other names for
\* every file
C19_Witness ==
    /\ paths # <<>>
    /\ indexProps # <<>>
    /\ postPage = PostPageSlugOfTitle
    /\ Len(disk.entries) >= 2
    /\ Len(paths[1].paths) = Len(disk.entries)
    /\ \E i \in DOMAIN disk.entries : "title" \notin DOMAIN disk.entries[i].data
    /\ \A i \in DOMAIN disk.entries :
          disk.entries[i].name # Renamed(disk.entries)[i].name

(* C21: the table of contents of the single-post page has exactly one      *)
(* entry per heading of the body, in document order, each linking to '#'   *)
(* + the heading's slug and indented by (depth - 1) * 25 pixels; its title *)
(* is shown exactly when the body has at least one heading.                *)
C21_TableOfContents ==
    toc # <<>> =>
        /\ Len(toc[1].entries) = Len(headings)
        /\ \A i \in DOMAIN headings :
              /\ toc[1].entries[i].href = <<"#">> \o headings[i].slug
              /\ toc[1].entries[i].text = headings[i].text
              /\ toc[1].entries[i].marginLeft = (headings[i].depth - 1) * 25
        /\ toc[1].title <=> headings # <<>>

\* the table of a body with a first-level heading and a deeper one
C21_Witness ==
    /\ toc # <<>>
    /\ toc[1].title
    /\ \E i, j \in DOMAIN headings :
          /\ i < j
          /\ headings[i].depth = 1 /\ toc[1].entries[i].marginLeft = 0
          /\ headings[j].depth = 3 /\ toc[1].entries[j].marginLeft = 50
          /\ headings[i].slug # headings[j].slug

(* C22: with the posts directory unchanged between the loads, for every    *)
(* loaded post the index link /post/<slug(title)> names a path that        *)
(* getStaticPaths returned, and getStaticProps called with that slug       *)
(* returns a post and never notFound.                                      *)
C22_IndexLinksResolve ==
    indexProps # <<>> /\ paths # <<>> =>
        \A i \in DOMAIN indexProps[1] :
            LET post == indexProps[1][i]
            IN  /\ \E k \in DOMAIN paths[1].paths :
                      postHref(post) = PostPrefix \o paths[1].paths[k]
                /\ \A posts \in Loads(disk) :
                      "props" \in DOMAIN postOfSlug(postPage, posts, slug(post.title))

\* the same statement for the post page that slugs the title of the post
C22_LinksResolveBySlugOfTitle ==
    postPage = PostPageSlugOfTitle => C22_IndexLinksResolve

(* C23: getStaticProps of the post page returns notFound exactly when no   *)
(* loaded post has a slug equal to the requested slug parameter, and       *)
(* otherwise a post whose slug equals the requested parameter.             *)
C23_NotFoundIffNoSlug ==
    postProps # <<>> =>
        \E posts \in Loads(disk) :
        LET none == \A i \in DOMAIN posts : slug(posts[i].title) # context
        IN  /\ "notFound" \in DOMAIN postProps[1] <=> none
            /\ "props" \in DOMAIN postProps[1] =>
                  /\ \E i \in DOMAIN posts : postProps[1].props.post = posts[i]
                  /\ slug(postProps[1].props.post.title) = context

\* the same statement for the post page that slugs the title of the post
C23_BySlugOfTitle ==
    postPage = PostPageSlugOfTitle => C23_NotFoundIffNoSlug

\* the sign of a comparator result
Sign(n) == IF n < 0 THEN -1 ELSE IF n > 0 THEN 1 ELSE 0

\* C24: orderPostsByDate is a consistent comparator over all date values,
\* unparseable ones included: the result for (b, a) has the negated sign of
\* the result for (a, b), a post compared with itself gives 0, and the
\* order is transitive.
C24_ConsistentComparator ==
    Len(orderOut) = 2 =>
        /\ Sign(orderOut[2]) = 0 - Sign(orderOut[1])
        /\ first = second => orderOut[1] = 0
        /\ \A d \in DateValues :
              LET third == PostOf(TitleA, d)
              IN  /\ orderOut[1] > 0 /\ orderPostsByDate(second, third) > 0
                        => orderPostsByDate(first, third) > 0
                  /\ orderOut[1] < 0 /\ orderPostsByDate(second, third) < 0
                        => orderPostsByDate(first, third) < 0

\* the same three laws when the dates of the compared posts all parse
C24_ConsistentWhenDatesValid ==
    Len(orderOut) = 2 /\ first.date # NaN /\ second.date # NaN =>
        /\ Sign(orderOut[2]) = 0 - Sign(orderOut[1])
        /\ first = second => orderOut[1] = 0
        /\ \A d \in DateValues \ {NaN} :
              LET third == PostOf(TitleA, d)
              IN  /\ orderOut[1] > 0 /\ orderPostsByDate(second, third) > 0
                        => orderPostsByDate(first, third) > 0
                  /\ orderOut[1] < 0 /\ orderPostsByDate(second, third) < 0
                        => orderPostsByDate(first, third) < 0

\* r is s without one leading '<digits>-', or s itself when s has none
StrippedOnce(s, r) ==
    LET indexed(n) == /\ \A k \in 1 .. n : s[k] \in Digit
                      /\ s[n + 1] = Hyphen
    IN  \/ /\ r = s
           /\ ~ \E n \in 1 .. Len(s) - 1 : indexed(n)
        \/ \E n \in 1 .. Len(s) - 1 :
              /\ indexed(n)
              /\ r = SubSeq(s, n + 2, Len(s))

(* C25: in the Astro version the listing link, the RSS link and the slug   *)
(* param of every collection entry are built from the same string, the     *)
(* entry's slug without one leading '<digits>-' (the slug itself when it   *)
(* has none), so every listing and RSS link targets a generated route.     *)
C25_LinksFromStrippedSlug ==
    LET entries == getCollection(disk.entries)
        link(r) == BlogPrefix \o r \o <<"/">>
        listed == listing # <<>> /\ "posts" \in DOMAIN listing[1]
    IN  /\ astroPaths # <<>> =>
              /\ Len(astroPaths[1]) = Len(entries)
              /\ \A i \in DOMAIN entries :
                    StrippedOnce(entries[i].slug, astroPaths[1][i].params.slug)
        /\ feed # <<>> =>
              /\ Len(feed[1]) = Len(entries)
              /\ \A i \in DOMAIN entries :
                    \E r \in {SubSeq(entries[i].slug, n, Len(entries[i].slug)) :
                                 n \in 1 .. Len(entries[i].slug) + 1} :
                        /\ StrippedOnce(entries[i].slug, r)
                        /\ feed[1][i].link = link(r)
        /\ listed =>
              /\ Len(listing[1].posts) = Len(entries)
              /\ \A i \in DOMAIN entries :
                    \E k \in DOMAIN listing[1].posts,
                       r \in {SubSeq(entries[i].slug, n, Len(entries[i].slug)) :
                                 n \in 1 .. Len(entries[i].slug) + 1} :
                        /\ StrippedOnce(entries[i].slug, r)
                        /\ listing[1].posts[k].href = link(r)
                        /\ listing[1].posts[k].pubDate =
                              IF "date" \in DOMAIN entries[i].data
                              THEN <<entries[i].data.date>> ELSE <<>>
        /\ astroPaths # <<>> /\ feed # <<>> =>
              \A i \in DOMAIN feed[1] :
                  \E j \in DOMAIN astroPaths[1] :
                      feed[1][i].link = link(astroPaths[1][j].params.slug)
        /\ astroPaths # <<>> /\ listed =>
              \A k \in DOMAIN listing[1].posts :
                  \E j \in DOMAIN astroPaths[1] :
                      listing[1].posts[k].href = link(astroPaths[1][j].params.slug)

\* a built site of three entries, listed in another order than the
\* collection's: one slug without an index, one with an index, one with two
C25_Witness ==
    /\ astroPaths # <<>> /\ feed # <<>> /\ listing # <<>>
    /\ "posts" \in DOMAIN listing[1]
    /\ Len(listing[1].posts) = 3
    /\ listing[1].posts[1].href # feed[1][1].link
    /\ \E i \in DOMAIN astroPaths[1] :
          astroPaths[1][i].params.slug = astroPaths[1][i].props.slug
    /\ \E i \in DOMAIN astroPaths[1] :
          /\ astroPaths[1][i].params.slug # astroPaths[1][i].props.slug
          /\ Head(astroPaths[1][i].params.slug) \in Digit

(* C27: searching never modifies the posts list: an input event leaves the *)
(* posts prop as it was, elements and order, and the event that sets the   *)
(* search text back to empty displays the list displayed before any search.*)
C27_SearchLeavesPosts ==
    [][search # <<>> /\ search' # <<>> =>
          /\ indexProps' = indexProps
          /\ search'[1] = <<>> =>
                filteredPosts(indexProps'[1], search'[1], results'[1])
                    = indexProps[1]]_vars

\* the search text emptied after a search, on a page of two posts or more
\* whose last results are not the posts
C27_Witness ==
    /\ search # <<>>
    /\ searched
    /\ search[1] = <<>>
    /\ Len(indexProps[1]) >= 2
    /\ results[1] # indexProps[1]

(* C28: for posts with valid dates the comparator of the Astro listing and *)
(* orderPostsByDate give the same sign for every pair of posts, and the    *)
(* two versions list the same posts in the same descending-date order.     *)
C28_SameSignSameOrder ==
    LET entries == getCollection(disk.entries)
        posts == CHOOSE loaded \in Loads(disk) : TRUE
        valid == \A i \in DOMAIN entries :
                    /\ "date" \in DOMAIN entries[i].data
                    /\ entries[i].data.date # NaN
    IN  valid =>
          /\ \A i, j \in DOMAIN entries :
                Sign(astroCompare(entries[i], entries[j]))
                    = Sign(orderPostsByDate(posts[i], posts[j]))
          /\ indexProps # <<>> /\ listing # <<>> =>
                /\ "posts" \in DOMAIN listing[1]
                /\ Len(listing[1].posts) = Len(indexProps[1])
                /\ \A k \in DOMAIN indexProps[1] :
                      /\ listing[1].posts[k].title = indexProps[1][k].title
                      /\ listing[1].posts[k].pubDate = <<indexProps[1][k].date>>
                /\ \A k \in 1 .. Len(indexProps[1]) - 1 :
                      indexProps[1][k].date >= indexProps[1][k + 1].date

\* both listings built from three dated posts that the sort reorders, two
\* of them of the same date
C28_Witness ==
    /\ indexProps # <<>> /\ listing # <<>>
    /\ "posts" \in DOMAIN listing[1]
    /\ Len(indexProps[1]) = 3
    /\ \A i \in DOMAIN disk.entries :
          /\ "date" \in DOMAIN disk.entries[i].data
          /\ disk.entries[i].data.date # NaN
    /\ disk.entries[1].data.date < disk.entries[3].data.date
    /\ \E i, j \in DOMAIN disk.entries :
          /\ i # j
          /\ disk.entries[i].data.date = disk.entries[j].data.date
          /\ disk.entries[i].data.title # disk.entries[j].data.title

\* the text of a heading's children: the strings and the texts of the
\* elements, concatenated
RECURSIVE TextContent(_)
TextContent(nodes) ==
    IF nodes = <<>> THEN <<>>
    ELSE Head(nodes).text \o TextContent(Tail(nodes))

(* C29: in the Next.js post page the anchor around every rendered H1 links *)
(* to the heading's own id: the id is slug(text) of the heading's content  *)
(* and the href is '#' followed by that id.                                *)
C29_HeadingLinksOwnId ==
    heading # <<>> =>
        /\ heading[1].id = <<slug(TextContent(children[1].nodes))>>
        /\ heading[1].href = <<"#">> \o slug(TextContent(children[1].nodes))

\* the same for the headings whose children are one string
C29_PlainHeadingLinksOwnId ==
    heading # <<>> /\ children[1].typeof = "string" =>
        /\ heading[1].id = <<slug(children[1].nodes[1].text)>>
        /\ heading[1].href = <<"#">> \o heading[1].id[1]

\* Ctrl+K or Meta+K
IsShortcut(event) == (event.ctrlKey \/ event.metaKey) /\ event.key = "k"

(* C26: on the index page at most one keydown listener of the search       *)
(* shortcut is on the document at any time: a change of the search input   *)
(* element removes the old listener before the new one is added, none      *)
(* remains after unmount, and a Ctrl+K or Meta+K keydown focuses the       *)
(* search input that is mounted.                                           *)
C26_OneShortcutListener ==
    /\ Len(listeners) <= 1
    /\ phase = "cleaned" => listeners = <<>>
    /\ phase = "unmounted" => listeners = <<>>
    /\ phase = "idle" => listeners = <<inputElement>> /\ inputElement # 0
    /\ phase = "idle" /\ lastKey # <<>> /\ IsShortcut(lastKey[1].event) =>
          activeElement = inputElement

\* the second mount of the page: the focus had left the input and the
\* shortcut has brought it back
C26_Witness ==
    /\ phase = "idle"
    /\ mounts = 2
    /\ lastKey # <<>>
    /\ IsShortcut(lastKey[1].event)
    /\ lastKey[1].active = 0
    /\ activeElement = inputElement

=============================================================================
